---- MODULE Spec2Model ----
(***************************************************************************)
(* Posting pipeline of ToAllCreation: the request store (one parent row    *)
(* per upload request with one embedded child per destination), the work   *)
(* queue, the intake (create_upload_request), the queue worker             *)
(* (posting_worker.handler), the user resubmit and the scheduler.          *)
(***************************************************************************)
EXTENDS Bags, FiniteSets, Integers, Sequences, TLC

(***************************************************************************)
(* Bounds of the model                                                     *)
(***************************************************************************)
\* timestamps saturate at MaxClock
MaxClock == 2
\* how many times the queue hands out a job a second time (at-least-once)
MaxRedeliver == 1
\* how many resubmit calls a behaviour holds
MaxResubmit == 2
\* longest destination list a submit is called with
MaxDests == 2

(***************************************************************************)
(* Values                                                                  *)
(***************************************************************************)
\* destinations a submit may name; account ids of the form <platform>:<id>
Dests == {"facebook:P1", "instagram:I1"}
\* a destination no request of the model holds
OtherDest == "twitter:T9"
\* ids uuid4 may hand to a new request, and an id that names no request
SubmitIds == {"r1"}
UnknownId == "r0"
UserId == "U"
VideoUrl == "V"
Caption == "hi"
Workers == {"w1", "w2"}
\* scheduled posts, concurrent scheduler executions, ids of their requests
PostIds == {"p1", "p2"}
Execs == {"e1", "e2"}
SchedIds == {"s1", "s2"}
\* a field that is not set (None / attribute absent)
Absent == "<absent>"

\* what the platform adapter of a destination does: return a result or raise
AdapterOutcomes ==
  { [ok |-> TRUE, result |-> "post_id", error |-> Absent],
    [ok |-> FALSE, result |-> Absent, error |-> "upload error"] }

VARIABLES
  requests,   \* upload_requests_table: request_id -> parent row
  queue,      \* the posting queue: bag of job messages
  worker,     \* per worker invocation: position, message, log buffer
  clock,      \* datetime.utcnow()
  redelivered,\* deliveries that left the job in the queue
  resubmits,  \* resubmit calls made
  response,   \* outcome of the last API call (submit / resubmit)
  intake,     \* create_upload_request in progress (stepwise specification)
  scheduled_posts, \* scheduled_posts_table: scheduled_post_id -> row
  sched,      \* per scheduler execution: position, ready_posts, index
  promoted,   \* per scheduled post: successful claims and intake calls so far
  derive,     \* one parent recomputation on each path, from the same children
  accounts,   \* social_accounts_table: (user_id, account_id) -> account row
  cred,       \* per worker: where process_<platform>_post is, and its locals
  provider,   \* the platform's token endpoint: what it has issued
  listing,    \* what the last read of the account registry returned
  ig,         \* one run of the Instagram adapter: its calls and its result
  tw,         \* one run of the Twitter adapter: its calls and its result
  tk,         \* one run of the TikTok adapter: its calls and its result
  batch,      \* one invocation of the worker handler on a batch of records
  li,         \* one run of the LinkedIn adapter: its calls and its clock
  resub       \* per caller: where its resubmit_failed_destination call is

coreVars == <<requests, queue, worker, clock, redelivered, resubmits, response,
              intake>>

schedVars == <<scheduled_posts, sched, promoted>>

\* the state of the parts specified further down
credVars == <<accounts, cred, provider>>

adapterVars == <<ig, tw, tk, batch, li, resub>>

extVars == <<derive, accounts, cred, provider, listing, ig, tw, tk,
             batch, li, resub>>

vars == <<requests, queue, worker, clock, redelivered, resubmits, response,
          intake, scheduled_posts, sched, promoted, derive, accounts, cred,
          provider, listing, ig, tw, tk, batch, li, resub>>

(***************************************************************************)
(* Helpers                                                                 *)
(***************************************************************************)
Min(a, b) == IF a < b THEN a ELSE b

\* Python truthiness of an optional string argument ("if error:")
Truthy(x) == x # Absent /\ x # ""

IsPrefix(s, t) ==
  /\ Len(s) <= Len(t)
  /\ \A i \in 1..Len(s) : s[i] = t[i]

Range(s) == { s[i] : i \in 1..Len(s) }

\* all sequences over S of length 1..n
SeqsUpTo(S, n) == UNION { [1..k -> S] : k \in 1..n }

Tick == Min(clock + 1, MaxClock)

\* DetailedLogger.log: one entry of the buffer. shows is the set of stored
\* values that the f-string of the message interpolates.
LogShow(level, message, values) ==
  [level |-> level, message |-> message, shows |-> values]

LogEntry(level, message) == LogShow(level, message, {})

NoMsg ==
  [request_id |-> "", user_id |-> "", destination |-> "",
   video_url |-> "", caption |-> ""]

JobMessage(request_id, user_id, dest, video_url, caption) ==
  [request_id |-> request_id, user_id |-> user_id, destination |-> dest,
   video_url |-> video_url, caption |-> caption]

Statuses(item) ==
  { item.destinations[d].status : d \in DOMAIN item.destinations }


BagOfSeq(s) ==
  [ x \in Range(s) |-> Cardinality({ i \in 1..Len(s) : s[i] = x }) ]

(***************************************************************************)
(* posting_worker.py: the log buffer of one invocation (DetailedLogger)    *)
(***************************************************************************)
\* handler, lines 783-787: the four entries logged before the first write
StartLogs ==
  << LogEntry("INFO", "Starting async post processing"),
     LogEntry("INFO", "Request ID"),
     LogEntry("INFO", "User ID"),
     LogEntry("INFO", "Destination") >>

\* process_<platform>_post: what the routine adds to the buffer
AdapterLogs(out) ==
  IF out.ok
  THEN << LogEntry("INFO", "Starting post for account"),
          LogEntry("INFO", "Calling API..."),
          LogEntry("INFO", "API returned") >>
  ELSE << LogEntry("INFO", "Starting post for account"),
          LogEntry("ERROR", "posting error"),
          LogEntry("ERROR", "Traceback") >>

\* handler, lines 826-828 and 845-846
FinishLogs(out) ==
  IF out.ok
  THEN << LogEntry("INFO", "Post completed successfully"),
          LogEntry("INFO", "Result"),
          LogEntry("INFO", "Summary") >>
  ELSE << LogEntry("ERROR", "Processing failed"),
          LogEntry("ERROR", "Full traceback") >>

(***************************************************************************)
(* posting_worker.py: the store updates of the worker                      *)
(***************************************************************************)
\* (mutant of overall_status: 'failed' tested before 'processing')
overall_status_mut(statuses) ==
  IF "failed" \in statuses THEN "failed"
  ELSE IF "processing" \in statuses THEN "processing"
  ELSE IF statuses \subseteq {"completed"} THEN "completed"
  ELSE "queued"

\* the status update_parent_request_status derives, lines 97-110
overall_status(statuses) ==
  LET has_processing == "processing" \in statuses
      has_failed == "failed" \in statuses
      all_completed == \A s \in statuses : s = "completed"
  IN IF has_processing THEN "processing"
     ELSE IF has_failed THEN "failed"
     ELSE IF all_completed THEN "completed"
     ELSE "queued"

\* update_parent_request_status, lines 85-94: the row exists and has children
HasDestinations(store, request_id) ==
  /\ request_id \in DOMAIN store
  /\ DOMAIN store[request_id].destinations # {}

\* update_parent_request_status, lines 113-121: the unconditional write of
\* the parent's status and updated_at
set_parent_status(store, request_id, status, t) ==
  IF request_id \in DOMAIN store
  THEN [store EXCEPT ![request_id].status = status, ![request_id].updated_at = t]
  ELSE store

\* update_parent_request_status: read the row, derive, write status and
\* updated_at; any store error is logged and swallowed (ok = FALSE)
update_parent_request_status(store, request_id, t, ok) ==
  IF ~ok \/ ~HasDestinations(store, request_id) THEN store
  ELSE set_parent_status(store, request_id,
                         overall_status(Statuses(store[request_id])), t)

\* (mutant of update_destination: the whole destinations map is replaced by
\* a map holding the one child)
update_destination_mut(store, request_id, dest, status, logs, error, result, t) ==
  [store EXCEPT ![request_id].destinations =
     [ d \in {dest} |->
         [ (store[request_id].destinations[dest]) EXCEPT
             !.status = status, !.updated_at = t, !.logs = logs,
             !.error = IF Truthy(error) THEN error ELSE @,
             !.result = IF Truthy(result) THEN result ELSE @ ] ]]

\* the update_item of update_request_status: SET on the paths of one child.
\* The store rejects the update when the row or the child's map entry is
\* missing (invalid document path), see CanUpdate.
update_destination(store, request_id, dest, status, logs, error, result, t) ==
  [store EXCEPT ![request_id].destinations[dest] =
     [ @ EXCEPT !.status = status, !.updated_at = t, !.logs = logs,
                !.error = IF Truthy(error) THEN error ELSE @,
                !.result = IF Truthy(result) THEN result ELSE @ ]]

CanUpdate(store, request_id, dest) ==
  /\ request_id \in DOMAIN store
  /\ dest \in DOMAIN store[request_id].destinations

\* update_request_status: the child write, then the parent recomputation;
\* an error of the child write skips the recomputation (one try block)
update_request_status(store, request_id, dest, status, logs, error, result, t, childOk, parentOk) ==
  IF ~childOk \/ ~CanUpdate(store, request_id, dest) THEN store
  ELSE update_parent_request_status(
         update_destination(store, request_id, dest, status, logs, error, result, t),
         request_id, t, parentOk)


(***************************************************************************)
(* upload_requests.py: intake and resubmit                                 *)
(***************************************************************************)
\* create_upload_request, lines 53-74: the parent row with one child per
\* destination of the list (a dict: a destination named twice has one child)
request_item(user_id, video_url, caption, destinations, t) ==
  [ user_id |-> user_id, video_url |-> video_url, caption |-> caption,
    destinations |->
      [ d \in Range(destinations) |->
          [ status |-> "queued", created_at |-> t, updated_at |-> t,
            logs |-> << >>, error |-> Absent, result |-> Absent ] ],
    created_at |-> t, updated_at |-> t, status |-> "queued" ]

\* upload_requests_table.put_item(Item=request_item)
put_item(store, request_id, item) ==
  [ r \in DOMAIN store \cup {request_id} |->
      IF r = request_id THEN item ELSE store[r] ]

\* the job messages the loop of lines 80-103 sends, in order
job_messages(request_id, user_id, video_url, caption, destinations) ==
  [ i \in 1..Len(destinations) |->
      JobMessage(request_id, user_id, destinations[i], video_url, caption) ]

\* update_overall_status, lines 238-251: priority failed > processing >
\* queued > completed
resubmit_overall_status(statuses) ==
  IF \E s \in statuses : s = "failed" THEN "failed"
  ELSE IF \E s \in statuses : s = "processing" THEN "processing"
  ELSE IF \E s \in statuses : s = "queued" THEN "queued"
  ELSE IF \A s \in statuses : s = "completed" THEN "completed"
  ELSE "processing"

\* update_overall_status: writes only when the derived status differs
update_overall_status(store, request_id, t) ==
  IF request_id \notin DOMAIN store THEN store
  ELSE IF DOMAIN store[request_id].destinations = {} THEN store
  ELSE LET overall == resubmit_overall_status(Statuses(store[request_id]))
       IN IF store[request_id].status # overall
          THEN [store EXCEPT ![request_id].status = overall,
                             ![request_id].updated_at = t]
          ELSE store

ResubmitLog == LogEntry("INFO", "Task resubmitted by user")

\* resubmit_failed_destination, lines 302-319: the update_item that sets
\* status, updated_at and logs of the child and removes its error
resubmit_update(store, request_id, dest, t) ==
  [store EXCEPT ![request_id].destinations[dest] =
     [ @ EXCEPT !.status = "queued", !.updated_at = t,
                !.logs = << ResubmitLog >>, !.error = Absent ]]

\* (mutant of resubmit_error: the status of the child is not tested)
resubmit_error_mut(store, request_id, dest) ==
  IF request_id \notin DOMAIN store THEN "Upload request not found"
  ELSE IF dest \notin DOMAIN store[request_id].destinations
       THEN "Destination not found"
  ELSE ""

\* resubmit_failed_destination, lines 281-293: "" when the call may go on,
\* else the message of the ValueError
resubmit_error(store, request_id, dest) ==
  IF request_id \notin DOMAIN store THEN "Upload request not found"
  ELSE IF dest \notin DOMAIN store[request_id].destinations
       THEN "Destination not found"
  ELSE IF store[request_id].destinations[dest].status # "failed"
       THEN "Only failed tasks can be resubmitted"
  ELSE ""

Response(op, ok, detail) == [op |-> op, ok |-> ok, detail |-> detail]

IdleWorker == [pc |-> "idle", msg |-> NoMsg, logs |-> << >>, overall |-> ""]
IdleIntake ==
  [pc |-> "idle", request_id |-> "", destinations |-> << >>, sent |-> << >>]
IdleExec ==
  [pc |-> "idle", ready_posts |-> << >>, i |-> 1, request_id |-> "", error |-> ""]

(***************************************************************************)
(* Initial state: empty store, empty queue, no invocation running          *)
(***************************************************************************)
BaseInit ==
  /\ requests = << >>
  /\ queue = EmptyBag
  /\ worker = [w \in Workers |-> IdleWorker]
  /\ clock = 0
  /\ redelivered = 0
  /\ resubmits = 0
  /\ response = Response("", TRUE, "")
  /\ intake = IdleIntake
  /\ scheduled_posts = << >>
  /\ sched = [e \in Execs |-> IdleExec]
  /\ promoted = [p \in PostIds |-> [claims |-> 0, creates |-> 0]]


(***************************************************************************)
(* Accounts and credentials: the values process_<platform>_post works on   *)
(***************************************************************************)
Platforms == {"facebook", "instagram", "twitter", "youtube", "linkedin", "tiktok"}

CredDests ==
  {"facebook:P1", "instagram:I1", "twitter:T9", "youtube:Y1", "linkedin:L1",
   "tiktok:K1"}

\* handler, line 793: platform, _ = destination.split(':', 1)
platform_of(destination) ==
  CASE destination = "facebook:P1" -> "facebook"
    [] destination = "instagram:I1" -> "instagram"
    [] destination = "twitter:T9" -> "twitter"
    [] destination = "youtube:Y1" -> "youtube"
    [] destination = "linkedin:L1" -> "linkedin"
    [] destination = "tiktok:K1" -> "tiktok"

\* int(time.time()) during the runs
CurrentTime == 2000000

\* 7 days, the window of the Meta and LinkedIn routines
MetaWindow == 604800

\* 5 minutes, the window of the TikTok routine
TikTokWindow == 300

\* token_data.get('expires_in', 3600)
ExpiresIn == 3600

\* the arguments the worker passes to FacebookOAuthHandler(),
\* LinkedInOAuthHandler() and TikTokOAuthHandler()
HandlerArgsGiven == 0

\* OAuthHandler.__init__(self, client_id, client_secret, redirect_uri)
HandlerArgsRequired == 3

\* token_expires_at as stored by create_account: null, or a number
NullExpiry == [null |-> TRUE, value |-> 0]

Expiry(v) == [null |-> FALSE, value |-> v]

ExpiryValues ==
  {NullExpiry} \cup
  { Expiry(v) : v \in {0, CurrentTime, CurrentTime + 1,
                       CurrentTime + TikTokWindow, CurrentTime + TikTokWindow + 1,
                       CurrentTime + MetaWindow, CurrentTime + MetaWindow + 1} }

\* create_account, lines 69-86: the attributes the routines read. For
\* twitter the refresh_token attribute holds the OAuth 1.0a token secret; a
\* page account of facebook or instagram is created without refresh token.
account_item(user_id, account_id, platform, refresh_token, token_expires_at) ==
  [ user_id |-> user_id, account_id |-> account_id,
    platform |-> platform, platform_user_id |-> "uid", username |-> "name",
    access_token |-> "at0", refresh_token |-> refresh_token,
    token_expires_at |-> token_expires_at ]

\* Key={'user_id': user_id, 'account_id': account_id}
account_key(user_id, account_id) == <<user_id, account_id>>

RefreshTokensOf(platform) ==
  CASE platform \in {"facebook", "instagram"} -> {Absent}
    [] platform = "twitter" -> {"rt0"}
    [] OTHER -> {Absent, "rt0"}

NoOutcome == [ok |-> FALSE, result |-> Absent, error |-> Absent]

NoTokens == [access_token |-> "", refresh_token |-> "", token_expires_at |-> NullExpiry]

IdleCred ==
  [ pc |-> "idle", read |-> NoTokens, access_token |-> "", needs_refresh |-> FALSE,
    attempted |-> FALSE, new |-> NoTokens, updated |-> FALSE,
    adapter_token |-> "", logs |-> << >>, out |-> NoOutcome,
    cred_error |-> FALSE, request_id |-> "", destination |-> "" ]

\* the token endpoint of the platform: how many refresh responses it has
\* issued, the refresh token it accepts now, the access tokens it issued,
\* and whether the access token the account was linked with is still good
IdleProvider ==
  [issued |-> 0, refresh_token |-> Absent, access_tokens |-> {},
   initial_valid |-> TRUE]

CredIdle ==
  /\ accounts = << >>
  /\ cred = [w \in Workers |-> IdleCred]
  /\ provider = IdleProvider

IdleListing == [op |-> "", user_id |-> "", arg |-> "", items |-> {}]

NoResult == [status |-> "", id |-> ""]

\* post_reel before the call: no upload session, nothing sent
IdleIg ==
  [ pc |-> "idle", file_size |-> 0, offset |-> 0, sent |-> << >>,
    statuses |-> << >>,
    container_id |-> "", attempt |-> 0, last |-> "", publishes |-> 0,
    polls |-> 0, creation_id |-> "", publish_ok |-> FALSE,
    result |-> NoResult ]

\* processing_info.get("check_after_secs", ...): the key may be missing
NoCheckAfter == [present |-> FALSE, secs |-> 0]

CheckAfter(secs) == [present |-> TRUE, secs |-> secs]

\* no STATUS answer received yet
NoAnswer == [code |-> 0, state |-> "", check_after |-> NoCheckAfter]

\* post_video before the call: nothing downloaded, no call issued
IdleTw ==
  [ pc |-> "idle", video_size |-> 0, offset |-> 0, segment_index |-> 0,
    media_id |-> "", finalized |-> "", elapsed |-> 0, polls |-> 0,
    status |-> NoAnswer, slept |-> 0, calls |-> << >> ]

\* post_video of the TikTok adapter before the call
IdleTk ==
  [ pc |-> "idle", video_size |-> 0, publish_id |-> "", attempt |-> 0,
    puts |-> << >>, slept |-> << >>, fetches |-> 0, error |-> "" ]

\* handler before the invocation.  names holds the local names a record
\* binds (request_id, destination, detailed_log): they are function locals,
\* so they outlive the iteration that bound them.
NoNames == [bound |-> FALSE, request_id |-> "", destination |-> "", logs |-> << >>]

IdleBatch ==
  [ pc |-> "idle", Records |-> << >>, i |-> 1, names |-> NoNames,
    done |-> << >>, escaped |-> FALSE, statusCode |-> 0, acknowledged |-> FALSE ]

\* post_video of the LinkedIn adapter before the call.  elapsed is
\* time.time() - start_time of the wait, issued is its value when the last
\* status poll was sent.
IdleLi ==
  [ pc |-> "idle", calls |-> << >>, elapsed |-> 0, issued |-> 0, last |-> "",
    error |-> "" ]

\* the clients that call resubmit at the same time
Callers == {"c1", "c2"}

\* resubmit_failed_destination before the call
IdleCall == [pc |-> "idle", request_id |-> "", destination |-> "", error |-> ""]

AdaptersIdle ==
  /\ listing = IdleListing
  /\ ig = IdleIg
  /\ tw = IdleTw
  /\ tk = IdleTk
  /\ batch = IdleBatch
  /\ li = IdleLi
  /\ resub = [c \in Callers |-> IdleCall]

IdleDerive == [statuses |-> << >>, stored |-> "", worker |-> "", resubmit |-> ""]

Init ==
  /\ BaseInit
  /\ derive = IdleDerive
  /\ CredIdle
  /\ AdaptersIdle

DestLists == SeqsUpTo(Dests, MaxDests)

(***************************************************************************)
(* Operations, each a whole call (no interleaving inside a call)           *)
(***************************************************************************)
\* create_upload_request with every store and queue call succeeding
Submit(request_id, destinations) ==
  /\ request_id \notin DOMAIN requests
  /\ requests' = put_item(requests, request_id,
                   request_item(UserId, VideoUrl, Caption, destinations, clock))
  /\ queue' = queue (+) BagOfSeq(job_messages(request_id, UserId, VideoUrl,
                                              Caption, destinations))
  /\ response' = Response("submit", TRUE, request_id)
  /\ clock' = Tick
  /\ UNCHANGED <<worker, redelivered, resubmits, intake, schedVars>>
  /\ UNCHANGED extVars

\* handler, lines 770-790: a record is taken, the buffer started and the
\* child marked processing.  again = TRUE: the queue hands the job out once
\* more later (at-least-once delivery).
WorkerStart(w, m, again, childOk, parentOk) ==
  /\ worker[w].pc = "idle"
  /\ BagIn(m, queue)
  /\ again => redelivered < MaxRedeliver
  /\ redelivered' = IF again THEN redelivered + 1 ELSE redelivered
  /\ queue' = IF again THEN queue ELSE queue (-) SetToBag({m})
  /\ requests' = update_request_status(requests, m.request_id, m.destination,
                   "processing", StartLogs, Absent, Absent, clock, childOk, parentOk)
  /\ worker' = [worker EXCEPT ![w] =
                  [pc |-> "adapter", msg |-> m, logs |-> StartLogs, overall |-> ""]]
  /\ clock' = Tick
  /\ UNCHANGED <<resubmits, response, intake, schedVars>>
  /\ UNCHANGED extVars

\* handler, lines 792-856: the platform routine returns or raises, and the
\* terminal status is written with the whole buffer
WorkerFinish(w, out, childOk, parentOk) ==
  /\ worker[w].pc = "adapter"
  /\ LET m == worker[w].msg
         logs == worker[w].logs \o AdapterLogs(out) \o FinishLogs(out)
     IN requests' =
          IF out.ok
          THEN update_request_status(requests, m.request_id, m.destination,
                 "completed", logs, Absent, out.result, clock, childOk, parentOk)
          ELSE update_request_status(requests, m.request_id, m.destination,
                 "failed", logs, out.error, Absent, clock, childOk, parentOk)
  /\ worker' = [worker EXCEPT ![w] = IdleWorker]
  /\ clock' = Tick
  /\ UNCHANGED <<queue, redelivered, resubmits, response, intake, schedVars>>
  /\ UNCHANGED extVars

\* resubmit_failed_destination
Resubmit(request_id, dest) ==
  /\ resubmits < MaxResubmit
  /\ resubmits' = resubmits + 1
  /\ LET err == resubmit_error(requests, request_id, dest)
     IN IF err # ""
        THEN /\ response' = Response("resubmit", FALSE, err)
             /\ UNCHANGED <<requests, queue, clock>>
        ELSE /\ requests' = update_overall_status(
                              resubmit_update(requests, request_id, dest, clock),
                              request_id, clock)
             /\ queue' = queue (+) SetToBag({
                  JobMessage(request_id, requests[request_id].user_id, dest,
                             requests[request_id].video_url,
                             requests[request_id].caption) })
             /\ response' = Response("resubmit", TRUE, "Task resubmitted successfully")
             /\ clock' = Tick
  /\ UNCHANGED <<worker, redelivered, intake, schedVars>>
  /\ UNCHANGED extVars

Messages == BagToSet(queue)

Next ==
  \/ \E r \in SubmitIds, D \in DestLists : Submit(r, D)
  \/ \E w \in Workers, m \in Messages, again \in BOOLEAN :
       WorkerStart(w, m, again, TRUE, TRUE)
  \/ \E w \in Workers, out \in AdapterOutcomes : WorkerFinish(w, out, TRUE, TRUE)
  \/ \E r \in SubmitIds \cup {UnknownId}, d \in Dests \cup {OtherDest} :
       Resubmit(r, d)

Spec == Init /\ [][Next]_vars


(***************************************************************************)
(* Claims checked under Spec                                               *)
(***************************************************************************)
WorkerStep == worker' # worker

C1_Derived(item) ==
  LET S == Statuses(item)
  IN item.status =
       IF "processing" \in S THEN "processing"
       ELSE IF "failed" \in S THEN "failed"
       ELSE IF S = {"completed"} THEN "completed"
       ELSE "queued"

\* C1: after every child-status write of a worker (update_request_status,
\* run without interleaving) the stored parent status is 'processing' if
\* any child is processing, else 'failed' if any child is failed, else
\* 'completed' if all children are completed, else 'queued'.
C1_SequentialDerivation ==
  [][ WorkerStep => \A r \in DOMAIN requests' : C1_Derived(requests'[r]) ]_vars

\* a worker is running one destination while the other has failed, and the
\* parent reads 'processing'
C1_Witness ==
  \E r \in DOMAIN requests :
    /\ Statuses(requests[r]) = {"processing", "failed"}
    /\ requests[r].status = "processing"
    /\ resubmits = 0

ChildTransitions ==
  { <<"queued", "processing">>, <<"processing", "completed">>,
    <<"processing", "failed">>, <<"failed", "queued">> }

\* C5: over deliveries (at-least-once) and resubmits a child's status only
\* moves queued -> processing -> (completed | failed), or failed -> queued
\* by resubmit; a completed or failed child never returns to processing.
C5_ChildMonotone ==
  [][ \A r \in DOMAIN requests \cap DOMAIN requests' :
        \A d \in DOMAIN requests[r].destinations :
          LET old == requests[r].destinations[d].status
              new == requests'[r].destinations[d].status
          IN old = new \/ <<old, new>> \in ChildTransitions ]_vars

\* C6: the stored logs of every child after an operation have the logs
\* before the operation as a prefix.
C6_LogsAppendOnly ==
  [][ \A r \in DOMAIN requests \cap DOMAIN requests' :
        \A d \in DOMAIN requests[r].destinations :
          IsPrefix(requests[r].destinations[d].logs,
                   requests'[r].destinations[d].logs) ]_vars

C10_Effect(r, d) ==
  LET refused == \/ r \notin DOMAIN requests
                 \/ d \notin DOMAIN requests[r].destinations
                 \/ requests[r].destinations[d].status # "failed"
      job == JobMessage(r, requests[r].user_id, d, requests[r].video_url,
                        requests[r].caption)
      child == requests'[r].destinations[d]
      S == Statuses(requests'[r])
  IN IF refused
     THEN /\ ~response'.ok
          /\ requests' = requests
          /\ queue' = queue
     ELSE /\ response'.ok
          /\ child.status = "queued"
          /\ child.error = Absent
          /\ ResubmitLog \in Range(child.logs)
          /\ queue' = queue (+) SetToBag({job})
          /\ \A x \in DOMAIN requests[r].destinations \ {d} :
               requests'[r].destinations[x] = requests[r].destinations[x]
          /\ requests'[r].status =
               IF "failed" \in S THEN "failed"
               ELSE IF "processing" \in S THEN "processing"
               ELSE "queued"

ConcStart(w, m) ==
  /\ worker[w].pc = "idle"
  /\ BagIn(m, queue)
  /\ queue' = queue (-) SetToBag({m})
  /\ requests' =
       IF CanUpdate(requests, m.request_id, m.destination)
       THEN update_destination(requests, m.request_id, m.destination,
                               "processing", StartLogs, Absent, Absent, clock)
       ELSE requests
  /\ worker' = [worker EXCEPT ![w] =
       [pc |-> IF CanUpdate(requests, m.request_id, m.destination)
               THEN "p_read" ELSE "adapter",
        msg |-> m, logs |-> StartLogs, overall |-> ""]]
  /\ clock' = Tick
  /\ UNCHANGED <<redelivered, resubmits, response, intake, schedVars>>
  /\ UNCHANGED extVars

\* update_parent_request_status, lines 83-110: get_item and the derivation
ConcRead(w) ==
  /\ worker[w].pc \in {"p_read", "t_read"}
  /\ LET r == worker[w].msg.request_id
         after == IF worker[w].pc = "p_read" THEN "adapter" ELSE "idle"
     IN worker' = [worker EXCEPT ![w] =
          IF HasDestinations(requests, r)
          THEN [@ EXCEPT !.pc = IF worker[w].pc = "p_read" THEN "p_write" ELSE "t_write",
                         !.overall = overall_status(Statuses(requests[r]))]
          ELSE IF after = "idle" THEN IdleWorker ELSE [@ EXCEPT !.pc = after]]
  /\ UNCHANGED <<requests, queue, clock, redelivered, resubmits, response,
                 intake, schedVars>>
  /\ UNCHANGED extVars

\* update_parent_request_status, lines 113-121: the write of the status
\* derived from the row read before
ConcWrite(w) ==
  /\ worker[w].pc \in {"p_write", "t_write"}
  /\ requests' = set_parent_status(requests, worker[w].msg.request_id,
                                   worker[w].overall, clock)
  /\ worker' = [worker EXCEPT ![w] =
       IF worker[w].pc = "p_write" THEN [@ EXCEPT !.pc = "adapter"]
       ELSE IdleWorker]
  /\ clock' = Tick
  /\ UNCHANGED <<queue, redelivered, resubmits, response, intake, schedVars>>
  /\ UNCHANGED extVars

\* (mutant of ConcFinish: the 'failed' write returns without the parent
\* recomputation)
ConcFinish_mut(w, out) ==
  /\ worker[w].pc = "adapter"
  /\ LET m == worker[w].msg
         logs == worker[w].logs \o AdapterLogs(out) \o FinishLogs(out)
         can == CanUpdate(requests, m.request_id, m.destination)
     IN /\ requests' =
             IF ~can THEN requests
             ELSE IF out.ok
             THEN update_destination(requests, m.request_id, m.destination,
                                     "completed", logs, Absent, out.result, clock)
             ELSE update_destination(requests, m.request_id, m.destination,
                                     "failed", logs, out.error, Absent, clock)
        /\ worker' = [worker EXCEPT ![w] =
             IF can /\ out.ok THEN [@ EXCEPT !.pc = "t_read", !.logs = logs]
             ELSE IdleWorker]
  /\ clock' = Tick
  /\ UNCHANGED <<queue, redelivered, resubmits, response, intake, schedVars>>
  /\ UNCHANGED extVars

\* handler, lines 792-854, up to the update_item of the child
ConcFinish(w, out) ==
  /\ worker[w].pc = "adapter"
  /\ LET m == worker[w].msg
         logs == worker[w].logs \o AdapterLogs(out) \o FinishLogs(out)
         can == CanUpdate(requests, m.request_id, m.destination)
     IN /\ requests' =
             IF ~can THEN requests
             ELSE IF out.ok
             THEN update_destination(requests, m.request_id, m.destination,
                                     "completed", logs, Absent, out.result, clock)
             ELSE update_destination(requests, m.request_id, m.destination,
                                     "failed", logs, out.error, Absent, clock)
        /\ worker' = [worker EXCEPT ![w] =
             IF can THEN [@ EXCEPT !.pc = "t_read", !.logs = logs] ELSE IdleWorker]
  /\ clock' = Tick
  /\ UNCHANGED <<queue, redelivered, resubmits, response, intake, schedVars>>
  /\ UNCHANGED extVars

NextConc ==
  \/ \E r \in SubmitIds, D \in DestLists : Submit(r, D)
  \/ \E w \in Workers, m \in Messages : ConcStart(w, m)
  \/ \E w \in Workers : ConcRead(w)
  \/ \E w \in Workers : ConcWrite(w)
  \/ \E w \in Workers, out \in AdapterOutcomes : ConcFinish(w, out)

SpecConc == Init /\ [][NextConc]_vars

AllReturned == \A w \in Workers : worker[w].pc = "idle"

\* C2: for workers handling different destinations of one request, in every
\* interleaving of their child writes and of the read and the write inside
\* update_parent_request_status, once all workers have returned the stored
\* parent status equals the derivation applied to the final child statuses.
C2_ConcurrentConvergence ==
  (AllReturned /\ queue = EmptyBag) =>
    \A r \in DOMAIN requests :
      Cardinality(DOMAIN requests[r].destinations) = 2 => C1_Derived(requests[r])

C7_Isolated(w) ==
  LET m == IF worker[w].pc = "idle" THEN worker'[w].msg ELSE worker[w].msg
      r == m.request_id
      d == m.destination
      childWrite == worker'[w].pc \in {"p_read", "t_read"}
  IN r \in DOMAIN requests =>
       /\ r \in DOMAIN requests'
       /\ DOMAIN requests'[r].destinations = DOMAIN requests[r].destinations
       /\ \A x \in DOMAIN requests[r].destinations \ {d} :
            requests'[r].destinations[x] = requests[r].destinations[x]
       /\ requests'[r].user_id = requests[r].user_id
       /\ requests'[r].video_url = requests[r].video_url
       /\ requests'[r].caption = requests[r].caption
       /\ requests'[r].created_at = requests[r].created_at
       /\ requests'[r].destinations[d].created_at
            = requests[r].destinations[d].created_at
       /\ childWrite =>
            /\ requests'[r].destinations[d].logs = worker'[w].logs
            /\ requests'[r].destinations[d].status =
                 IF worker'[w].pc = "p_read" THEN "processing"
                 ELSE IF \E i \in 1..Len(worker'[w].logs) :
                           worker'[w].logs[i].message = "Post completed successfully"
                      THEN "completed" ELSE "failed"

\* C7: a step of the worker handling child d of a request leaves every
\* other child, the set of destination keys and the parent's user_id,
\* video_url, caption and created_at unchanged, and its child write stores
\* its own status and log buffer in d: concurrent workers on different
\* children lose no update.
C7_SiblingIsolation ==
  [][ \A w \in Workers : worker'[w] # worker[w] => C7_Isolated(w) ]_vars

\* two workers are at work on the two children of one request, both of
\* which hold what their worker wrote
C7_Witness ==
  /\ worker["w1"].pc = "adapter" /\ worker["w2"].pc = "t_read"
  /\ worker["w1"].msg.destination # worker["w2"].msg.destination
  /\ \E r \in DOMAIN requests :
       /\ requests[r].destinations[worker["w1"].msg.destination].status = "processing"
       /\ requests[r].destinations[worker["w2"].msg.destination].status = "completed"

(***************************************************************************)
(* Worker with store errors: an update_item or get_item of the request     *)
(* store may raise; update_request_status and update_parent_request_status *)
(* log and swallow it                                                      *)
(***************************************************************************)
NextFaults ==
  \/ \E r \in SubmitIds, D \in DestLists : Submit(r, D)
  \/ \E w \in Workers, m \in Messages, childOk \in BOOLEAN, parentOk \in BOOLEAN :
       WorkerStart(w, m, FALSE, childOk, parentOk)
  \/ \E w \in Workers, out \in AdapterOutcomes, childOk \in BOOLEAN,
        parentOk \in BOOLEAN :
       WorkerFinish(w, out, childOk, parentOk)

SpecFaults == Init /\ [][NextFaults]_vars

\* C4: when the handler has finished a message, whatever the adapter or a
\* store update did, the child's stored status is 'completed' or 'failed',
\* not 'processing'.
C4_NoChildLeftProcessing ==
  [][ \A w \in Workers :
        (worker[w].pc = "adapter" /\ worker'[w].pc = "idle") =>
          LET m == worker[w].msg
          IN CanUpdate(requests', m.request_id, m.destination) =>
               requests'[m.request_id].destinations[m.destination].status
                 \in {"completed", "failed"} ]_vars


(***************************************************************************)
(* Intake step by step: create_upload_request writes the parent row and    *)
(* then sends one message per element of the destination list; a           *)
(* send_message may raise, which ends the call (nothing catches it before  *)
(* the API boundary)                                                       *)
(***************************************************************************)
\* create_upload_request, lines 48-77: the row is built and put
IntakePut(request_id, destinations) ==
  /\ intake.pc = "idle"
  /\ request_id \notin DOMAIN requests
  /\ requests' = put_item(requests, request_id,
                   request_item(UserId, VideoUrl, Caption, destinations, clock))
  /\ intake' = [pc |-> "sending", request_id |-> request_id,
                destinations |-> destinations, sent |-> << >>]
  /\ clock' = Tick
  /\ UNCHANGED <<queue, worker, redelivered, resubmits, response, schedVars>>
  /\ UNCHANGED extVars

\* create_upload_request, lines 80-105: one pass of the loop, or the return
IntakeSend(ok) ==
  /\ intake.pc = "sending"
  /\ LET i == Len(intake.sent) + 1
         msgs == job_messages(intake.request_id, UserId, VideoUrl, Caption,
                              intake.destinations)
     IN IF i > Len(intake.destinations)
        THEN /\ ok
             /\ intake' = [intake EXCEPT !.pc = "returned"]
             /\ response' = Response("submit", TRUE, intake.request_id)
             /\ UNCHANGED queue
        ELSE IF ok
        THEN /\ queue' = queue (+) SetToBag({msgs[i]})
             /\ intake' = [intake EXCEPT !.sent = Append(@, msgs[i])]
             /\ UNCHANGED response
        ELSE /\ intake' = [intake EXCEPT !.pc = "raised"]
             /\ response' = Response("submit", FALSE, "send_message failed")
             /\ UNCHANGED queue
  /\ UNCHANGED <<requests, worker, clock, redelivered, resubmits, schedVars>>
  /\ UNCHANGED extVars

NextIntake ==
  \/ \E r \in SubmitIds, D \in DestLists : IntakePut(r, D)
  \/ \E ok \in BOOLEAN : IntakeSend(ok)
  \/ \E w \in Workers, m \in Messages : WorkerStart(w, m, FALSE, TRUE, TRUE)
  \/ \E w \in Workers, out \in AdapterOutcomes : WorkerFinish(w, out, TRUE, TRUE)

SpecIntake == Init /\ [][NextIntake]_vars

\* the jobs of a request that a worker holds or may still take
JobsOf(request_id) ==
  { m \in Messages : m.request_id = request_id }
    \cup { worker[w].msg : w \in { x \in Workers :
                                     /\ worker[x].pc # "idle"
                                     /\ worker[x].msg.request_id = request_id } }

\* C8: if enqueueing the job of one destination fails during submit, the
\* submit fails and afterwards the request store holds no parent row for
\* the request_id and no job of the request is left for a worker.
C8_IntakeRollback ==
  intake.pc = "raised" =>
    /\ ~response.ok
    /\ intake.request_id \notin DOMAIN requests
    /\ JobsOf(intake.request_id) = {}

\* C9: a successful submit with destination list D first writes a parent
\* row with status 'queued' in which every d in D has a child 'queued' with
\* empty logs, and only then enqueues exactly one job per d in D with the
\* request's request_id, user_id, video_url and caption; no job exists
\* before the parent row and no destination gets zero or two jobs.
C9_IntakeFanOut ==
  /\ (intake.pc = "sending" /\ intake.sent = << >>) =>
       /\ intake.request_id \in DOMAIN requests
       /\ requests[intake.request_id].status = "queued"
       /\ DOMAIN requests[intake.request_id].destinations
            = Range(intake.destinations)
       /\ \A d \in Range(intake.destinations) :
            /\ requests[intake.request_id].destinations[d].status = "queued"
            /\ requests[intake.request_id].destinations[d].logs = << >>
  /\ \A r \in SubmitIds : JobsOf(r) # {} => r \in DOMAIN requests
  /\ intake.pc = "returned" =>
       /\ response.ok
       /\ \A d \in Range(intake.destinations) :
            Cardinality({ i \in 1..Len(intake.sent) :
                            intake.sent[i].destination = d }) = 1
       /\ \A i \in 1..Len(intake.sent) :
            intake.sent[i] = JobMessage(intake.request_id,
                               requests[intake.request_id].user_id,
                               intake.destinations[i],
                               requests[intake.request_id].video_url,
                               requests[intake.request_id].caption)


(***************************************************************************)
(* Scheduler: scheduled_posts_manager.py and scheduler_processor.handler   *)
(***************************************************************************)
\* destination lists of the scheduled posts of the model
SchedDestLists == { <<"facebook:P1">>, <<"facebook:P1", "instagram:I1">> }

\* create_scheduled_post, lines 50-62
scheduled_post(destinations, scheduled_time, t) ==
  [ user_id |-> UserId, video_url |-> VideoUrl, caption |-> Caption,
    destinations |-> destinations, scheduled_time |-> scheduled_time,
    status |-> "scheduled", request_id |-> Absent, error |-> Absent,
    created_at |-> t, updated_at |-> t ]

\* get_posts_ready_to_publish, lines 225-235: the key condition of the query
is_ready(row, now) == row.status = "scheduled" /\ row.scheduled_time <= now

\* the results a query may return: the ready rows as they are now, each with
\* its id, in the order of the index (ascending scheduled_time)
ReadyLists(table, now) ==
  LET ids == { p \in DOMAIN table : is_ready(table[p], now) }
  IN { [ k \in 1..Cardinality(ids) |->
           [scheduled_post_id |-> f[k], post |-> table[f[k]]] ] :
       f \in { g \in [1..Cardinality(ids) -> ids] :
                 /\ \A a, b \in 1..Cardinality(ids) : a # b => g[a] # g[b]
                 /\ \A a, b \in 1..Cardinality(ids) :
                      a < b => table[g[a]].scheduled_time
                                 <= table[g[b]].scheduled_time } }

\* (mutant of claim_condition: the update carries no ConditionExpression)
claim_condition_mut(table, scheduled_post_id) ==
  scheduled_post_id \in DOMAIN table

\* mark_post_as_processing, line 259: ConditionExpression '#status = :scheduled'
claim_condition(table, scheduled_post_id) ==
  /\ scheduled_post_id \in DOMAIN table
  /\ table[scheduled_post_id].status = "scheduled"

\* mark_post_as_processing, lines 253-268: the update when the condition holds
mark_post_as_processing(table, scheduled_post_id, t) ==
  [table EXCEPT ![scheduled_post_id].status = "processing",
                ![scheduled_post_id].updated_at = t]

\* mark_post_as_posted, lines 288-303
mark_post_as_posted(table, scheduled_post_id, request_id, t) ==
  [table EXCEPT ![scheduled_post_id].status = "posted",
                ![scheduled_post_id].updated_at = t,
                ![scheduled_post_id].request_id = request_id]

\* handler, line 44: the loop goes on with the next row or the call returns
next_row(exec) ==
  IF exec.i + 1 > Len(exec.ready_posts) THEN IdleExec
  ELSE [exec EXCEPT !.pc = "loop", !.i = exec.i + 1, !.request_id = "",
                    !.error = ""]

\* create_scheduled_post; a time that is not in the future raises
CreateScheduledPost(p, destinations, scheduled_time) ==
  /\ p \notin DOMAIN scheduled_posts
  /\ scheduled_time > clock
  /\ scheduled_posts' =
       [ x \in DOMAIN scheduled_posts \cup {p} |->
           IF x = p THEN scheduled_post(destinations, scheduled_time, clock)
           ELSE scheduled_posts[x] ]
  /\ UNCHANGED <<requests, queue, worker, clock, redelivered, resubmits,
                 response, intake, sched, promoted>>
  /\ UNCHANGED extVars

\* time passes
AdvanceClock ==
  /\ clock < MaxClock
  /\ clock' = clock + 1
  /\ UNCHANGED <<requests, queue, worker, redelivered, resubmits, response,
                 intake, schedVars>>
  /\ UNCHANGED extVars

\* handler, lines 35-42: get_posts_ready_to_publish
SchedQuery(e) ==
  /\ sched[e].pc = "idle"
  /\ \E ready \in ReadyLists(scheduled_posts, clock) :
       /\ ready # << >>
       /\ sched' = [sched EXCEPT ![e] =
            [IdleExec EXCEPT !.pc = "loop", !.ready_posts = ready]]
  /\ UNCHANGED <<requests, queue, worker, clock, redelivered, resubmits,
                 response, intake, scheduled_posts, promoted>>
  /\ UNCHANGED extVars

\* handler, lines 45-55: mark_post_as_processing on the next row of the list
SchedClaim(e) ==
  /\ sched[e].pc = "loop"
  /\ LET p == sched[e].ready_posts[sched[e].i].scheduled_post_id
     IN IF claim_condition(scheduled_posts, p)
        THEN /\ scheduled_posts' = mark_post_as_processing(scheduled_posts, p, clock)
             /\ sched' = [sched EXCEPT ![e].pc = "create"]
             /\ promoted' = [promoted EXCEPT ![p].claims = @ + 1]
        ELSE /\ sched' = [sched EXCEPT ![e] = next_row(sched[e])]
             /\ UNCHANGED <<scheduled_posts, promoted>>
  /\ UNCHANGED <<requests, queue, worker, clock, redelivered, resubmits,
                 response, intake>>
  /\ UNCHANGED extVars

\* handler, lines 57-66: create_upload_request with the row read by the query
SchedCreate(e, request_id) ==
  /\ sched[e].pc = "create"
  /\ request_id \notin DOMAIN requests
  /\ LET entry == sched[e].ready_posts[sched[e].i]
         post == entry.post
     IN /\ requests' = put_item(requests, request_id,
                         request_item(post.user_id, post.video_url, post.caption,
                                      post.destinations, clock))
        /\ queue' = queue (+) BagOfSeq(job_messages(request_id, post.user_id,
                              post.video_url, post.caption, post.destinations))
        /\ promoted' = [promoted EXCEPT ![entry.scheduled_post_id].creates = @ + 1]
  /\ sched' = [sched EXCEPT ![e].pc = "posted", ![e].request_id = request_id]
  /\ clock' = Tick
  /\ UNCHANGED <<worker, redelivered, resubmits, response, intake, scheduled_posts>>
  /\ UNCHANGED extVars

\* handler, lines 68-72: mark_post_as_posted
SchedPosted(e) ==
  /\ sched[e].pc = "posted"
  /\ scheduled_posts' = mark_post_as_posted(scheduled_posts,
                          sched[e].ready_posts[sched[e].i].scheduled_post_id,
                          sched[e].request_id, clock)
  /\ sched' = [sched EXCEPT ![e] = next_row(sched[e])]
  /\ UNCHANGED <<requests, queue, worker, clock, redelivered, resubmits,
                 response, intake, promoted>>
  /\ UNCHANGED extVars

NextSched ==
  \/ \E p \in PostIds, D \in SchedDestLists, t \in 1..MaxClock :
       CreateScheduledPost(p, D, t)
  \/ AdvanceClock
  \/ \E e \in Execs : SchedQuery(e)
  \/ \E e \in Execs : SchedClaim(e)
  \/ \E e \in Execs, r \in SchedIds : SchedCreate(e, r)
  \/ \E e \in Execs : SchedPosted(e)

SpecSched == Init /\ [][NextSched]_vars

\* the rows execution e has dealt with in its current pass
PassedRows(e) ==
  { sched[e].ready_posts[k].scheduled_post_id : k \in 1..(sched[e].i - 1) }

C3_Once ==
  /\ \A p \in PostIds :
       /\ promoted[p].claims <= 1
       /\ promoted[p].creates <= promoted[p].claims
       /\ (promoted[p].claims = 1 /\ \A e \in Execs : sched[e].pc = "idle")
            => promoted[p].creates = 1
  /\ \A e \in Execs : \A p \in PassedRows(e) : promoted[p].claims = 1

\* C3: a due row seen by concurrent scheduler executions is claimed by
\* exactly one of them (one successful mark_post_as_processing, one
\* create_upload_request); every other execution gets False, skips the row
\* and changes neither the row nor the request store.
C3_ExactlyOncePromotion ==
  [][ /\ C3_Once'
      /\ \A e \in Execs :
           (sched[e].pc = "loop" /\ sched'[e] # sched[e] /\ sched'[e].pc # "create")
             => UNCHANGED <<scheduled_posts, requests, queue>> ]_vars

\* one execution has claimed a row and is promoting it while the other,
\* which had read the same row as ready, has skipped it
C3_Witness ==
  \E e1 \in Execs, e2 \in Execs :
    /\ e1 # e2
    /\ sched[e1].pc = "posted"
    /\ sched[e2].pc = "loop" /\ sched[e2].i = 2
    /\ sched[e2].ready_posts[1].scheduled_post_id
         = sched[e1].ready_posts[sched[e1].i].scheduled_post_id
    /\ promoted[sched[e2].ready_posts[1].scheduled_post_id]
         = [claims |-> 1, creates |-> 1]

\* ---------------------------------------------------------------------
\* The two parent derivations side by side. One row with children of given
\* statuses and a given stored parent status is handed to the worker's
\* update_parent_request_status and to the resubmit path's
\* update_overall_status; each result is the parent status the row holds
\* after the call.
\* ---------------------------------------------------------------------

\* children per row in the comparison
MaxChildren == 3

ChildStatuses == {"queued", "processing", "completed", "failed"}

ChildName(i) == << "facebook:P1", "instagram:I1", "twitter:T9", "youtube:Y1" >>[i]

\* a table holding the row r1 whose i-th child has status statuses[i]
derive_store(statuses, stored) ==
  LET names == [ i \in 1..Len(statuses) |-> ChildName(i) ]
      item == request_item(UserId, VideoUrl, Caption, names, 0)
  IN put_item(<< >>, "r1",
       [ item EXCEPT
           !.status = stored,
           !.destinations =
             [ d \in DOMAIN item.destinations |->
                 [ item.destinations[d] EXCEPT
                     !.status = statuses[CHOOSE i \in 1..Len(statuses) :
                                           ChildName(i) = d] ] ] ])

InitDerive ==
  /\ BaseInit
  /\ derive \in [ statuses : SeqsUpTo(ChildStatuses, MaxChildren),
                  stored : ChildStatuses, worker : {""}, resubmit : {""} ]
  /\ CredIdle
  /\ AdaptersIdle

\* posting_worker.update_parent_request_status on the row
DeriveWorker ==
  /\ derive.worker = ""
  /\ UNCHANGED <<credVars, listing, adapterVars>>
  /\ derive' = [ derive EXCEPT !.worker =
       update_parent_request_status(derive_store(derive.statuses, derive.stored),
                                    "r1", 1, TRUE)["r1"].status ]
  /\ UNCHANGED <<coreVars, schedVars>>

\* upload_requests.update_overall_status on the same row
DeriveResubmit ==
  /\ derive.resubmit = ""
  /\ UNCHANGED <<credVars, listing, adapterVars>>
  /\ derive' = [ derive EXCEPT !.resubmit =
       update_overall_status(derive_store(derive.statuses, derive.stored),
                             "r1", 1)["r1"].status ]
  /\ UNCHANGED <<coreVars, schedVars>>

NextDerive == DeriveWorker \/ DeriveResubmit

SpecDerive == InitDerive /\ [][NextDerive]_vars

\* C11: for every non-empty vector of child statuses, the parent status
\* left by update_overall_status equals the one left by
\* update_parent_request_status on the same row.
C11_SingleDerivationRule ==
  (derive.worker # "" /\ derive.resubmit # "") => derive.worker = derive.resubmit

\* ---------------------------------------------------------------------
\* The scheduler with failing calls after the claim: create_upload_request
\* raises (at put_item, or at a send_message after the row is written),
\* mark_post_as_posted raises, and mark_post_as_failed itself may raise,
\* which the handler logs and swallows (lines 79-82).
\* ---------------------------------------------------------------------

\* mark_post_as_failed, lines 315-330
mark_post_as_failed(table, scheduled_post_id, error, t) ==
  [table EXCEPT ![scheduled_post_id].status = "failed",
                ![scheduled_post_id].updated_at = t,
                ![scheduled_post_id].error = error]

\* handler, lines 58-64 and 74-76: create_upload_request raises. With
\* stage "put" the put_item raised and nothing is written; with stage "send"
\* the row is written and the send_message of the last destination raised.
SchedCreateRaise(e, request_id, stage) ==
  /\ sched[e].pc = "create"
  /\ request_id \notin DOMAIN requests
  /\ LET post == sched[e].ready_posts[sched[e].i].post
         n == Len(post.destinations)
     IN IF stage = "put"
        THEN UNCHANGED <<requests, queue>>
        ELSE /\ requests' = put_item(requests, request_id,
                              request_item(post.user_id, post.video_url,
                                           post.caption, post.destinations, clock))
             /\ queue' = queue (+) BagOfSeq(job_messages(request_id, post.user_id,
                           post.video_url, post.caption,
                           SubSeq(post.destinations, 1, n - 1)))
  /\ sched' = [sched EXCEPT ![e].pc = "except",
                            ![e].error = IF stage = "put" THEN "put_item error"
                                         ELSE "send_message error"]
  /\ UNCHANGED <<worker, clock, redelivered, resubmits, response, intake,
                 scheduled_posts, promoted>>
  /\ UNCHANGED extVars

\* handler, lines 69 and 74-76: mark_post_as_posted raises
SchedPostedRaise(e) ==
  /\ sched[e].pc = "posted"
  /\ sched' = [sched EXCEPT ![e].pc = "except", ![e].error = "update_item error"]
  /\ UNCHANGED <<requests, queue, worker, clock, redelivered, resubmits,
                 response, intake, scheduled_posts, promoted>>
  /\ UNCHANGED extVars

\* handler, lines 78-84: mark_post_as_failed; when it raises (ok = FALSE) the
\* error is logged and the loop goes on
SchedFailed(e, ok) ==
  /\ sched[e].pc = "except"
  /\ scheduled_posts' =
       IF ok THEN mark_post_as_failed(scheduled_posts,
                    sched[e].ready_posts[sched[e].i].scheduled_post_id,
                    sched[e].error, clock)
       ELSE scheduled_posts
  /\ sched' = [sched EXCEPT ![e] = next_row(sched[e])]
  /\ UNCHANGED <<requests, queue, worker, clock, redelivered, resubmits,
                 response, intake, promoted>>
  /\ UNCHANGED extVars

NextSchedFaults ==
  \/ NextSched
  \/ \E e \in Execs, r \in SchedIds, stage \in {"put", "send"} :
       SchedCreateRaise(e, r, stage)
  \/ \E e \in Execs : SchedPostedRaise(e)
  \/ \E e \in Execs, ok \in BOOLEAN : SchedFailed(e, ok)

SpecSchedFaults == Init /\ [][NextSchedFaults]_vars

\* C12: when the execution that claimed a row finishes with it, the row is
\* 'posted' with the request_id of the upload request it created, or, when
\* a step after the claim raised, 'failed' with an error message; the row
\* is not left 'processing'.
C12_SchedulerFinalState ==
  [][ \A e \in Execs :
        ( /\ sched[e].pc \in {"posted", "except"}
          /\ sched'[e] = next_row(sched[e]) )
        => LET row == scheduled_posts'[sched[e].ready_posts[sched[e].i]
                                         .scheduled_post_id]
           IN IF sched[e].pc = "posted"
              THEN row.status = "posted" /\ row.request_id = sched[e].request_id
              ELSE row.status = "failed" /\ Truthy(row.error) ]_vars

\* ---------------------------------------------------------------------
\* The worker with the platform routine spelled out: the account read, the
\* refresh decision, the refresh call, the token update, the adapter call
\* and the terminal write, one store or platform call per step, for two
\* workers on jobs of two requests to the same account.
\* ---------------------------------------------------------------------

CredIds == <<"r1", "r2">>

\* the string attributes of the row that str(response) prints
Shown(row) ==
  { row.platform, row.platform_user_id, row.username, row.access_token,
    row.refresh_token } \ {Absent}

\* process_<platform>_post up to the account read: every routine but the
\* Instagram one logs the key and the whole get_item response
fetch_logs(platform, row) ==
  IF platform = "instagram"
  THEN << LogEntry("INFO", "Starting post for account"),
          LogEntry("INFO", "Fetching account details from database"),
          LogEntry("INFO", "Account details retrieved") >>
  ELSE << LogEntry("INFO", "Starting post for account"),
          LogEntry("INFO", "Fetching account details from database"),
          LogEntry("INFO", "Query key"),
          LogShow("INFO", "DynamoDB response", Shown(row)),
          LogShow("INFO", "Account details retrieved", {row.username}) >>

\* int(account.get('token_expires_at', 0)) on a null attribute raises
\* TypeError; the YouTube routine reads the attribute without int(), and
\* the Twitter routine does not read it
expiry_raises(platform, E) ==
  platform \in {"facebook", "instagram", "linkedin", "tiktok"} /\ E.null

\* the condition of the refresh branch of each routine
needs_refresh(platform, E, now) ==
  CASE platform \in {"facebook", "instagram", "linkedin"} ->
         E.value # 0 /\ now >= E.value - MetaWindow
    [] platform = "tiktok" -> E.value # 0 /\ now >= E.value - TikTokWindow
    [] platform = "youtube" -> ~E.null /\ E.value # 0 /\ now >= E.value
    [] platform = "twitter" -> FALSE

\* <Platform>OAuthHandler() in the worker against OAuthHandler.__init__;
\* the YouTube routine calls the static YouTubeTokenExchange.refresh_token
handler_constructed(platform) ==
  platform = "youtube" \/ HandlerArgsGiven = HandlerArgsRequired

\* (mutant of raise: the error is logged and the routine goes on to the
\* adapter call)
raise_mut(c, logs, error, is_credential_error) ==
  [ c EXCEPT !.pc = "adapter",
             !.cred_error = is_credential_error,
             !.logs = @ \o logs \o << LogEntry("ERROR", "posting error") >> ]

\* the except clauses of a routine: two ERROR entries, then re-raise
raise(c, logs, error, is_credential_error) ==
  [ c EXCEPT !.pc = "done",
             !.out = [ok |-> FALSE, result |-> Absent, error |-> error],
             !.cred_error = is_credential_error,
             !.logs = @ \o logs \o << LogEntry("ERROR", "posting error"),
                                      LogEntry("ERROR", "Traceback") >> ]

RefreshStartLogs ==
  << LogEntry("INFO", "Access token expired or expiring soon"),
     LogEntry("INFO", "Refreshing access token...") >>

RefreshFailedLogs == << LogEntry("ERROR", "Failed to refresh token") >>

\* the routine from the account read to the refresh call or the adapter call
after_fetch(c, platform, row, now) ==
  LET base == [ c EXCEPT !.read = [access_token |-> row.access_token,
                                   refresh_token |-> row.refresh_token,
                                   token_expires_at |-> row.token_expires_at],
                         !.access_token = row.access_token,
                         !.logs = fetch_logs(platform, row) ]
      E == row.token_expires_at
      needs == [base EXCEPT !.needs_refresh = TRUE]
      tries == [needs EXCEPT !.attempted = TRUE]
  IN IF expiry_raises(platform, E)
     THEN raise(base, << >>, "int() argument must not be 'NoneType'", FALSE)
     ELSE IF ~needs_refresh(platform, E, now)
     THEN [base EXCEPT !.pc = "adapter"]
     ELSE IF platform = "youtube"
     THEN IF ~Truthy(row.refresh_token)
          THEN raise(needs, << LogEntry("INFO", "Access token expired, refreshing...") >>,
                     "No refresh token available for YouTube account", TRUE)
          ELSE [tries EXCEPT !.pc = "refresh",
                  !.logs = @ \o << LogEntry("INFO", "Access token expired, refreshing...") >>]
     ELSE IF platform \in {"linkedin", "tiktok"} /\ ~Truthy(row.refresh_token)
     THEN raise(needs, << LogEntry("INFO", "Access token expired or expiring soon") >>,
                "Access token expired and no refresh token available", TRUE)
     ELSE IF handler_constructed(platform)
     THEN [tries EXCEPT !.pc = "refresh", !.logs = @ \o RefreshStartLogs]
     ELSE raise(tries, RefreshStartLogs \o RefreshFailedLogs,
                "Failed to refresh token: __init__() missing 3 required positional arguments",
                TRUE)

AccessTokenNo(n) == << "at1", "at2" >>[n]

RefreshTokenNo(n) == << "rt1", "rt2" >>[n]

\* LinkedIn and TikTok answer a refresh with a new refresh token
rotating(platform) == platform \in {"linkedin", "tiktok"}

\* the result of the platform adapter on success
adapter_result(platform) == IF platform = "youtube" THEN "video_id" ELSE "post_id"

\* whether the platform accepts the access token
usable(token) ==
  \/ token \in provider.access_tokens
  \/ token = "at0" /\ provider.initial_valid

InitCred ==
  /\ \E d \in CredDests, E \in ExpiryValues :
       \E rt \in RefreshTokensOf(platform_of(d)) :
         /\ accounts = [ k \in {account_key(UserId, d)} |->
                           account_item(UserId, d, platform_of(d), rt, E) ]
         /\ provider = [IdleProvider EXCEPT
                          !.refresh_token = rt,
                          !.initial_valid = (E.null \/ E.value = 0
                                               \/ E.value > CurrentTime)]
         /\ requests = [ r \in Range(CredIds) |->
                           request_item(UserId, VideoUrl, Caption, <<d>>, 0) ]
         /\ queue = BagOfSeq([ i \in 1..Len(CredIds) |->
                           JobMessage(CredIds[i], UserId, d, VideoUrl, Caption) ])
  /\ cred = [w \in Workers |-> IdleCred]
  /\ worker = [w \in Workers |-> IdleWorker]
  /\ clock = 0
  /\ redelivered = 0
  /\ resubmits = 0
  /\ response = Response("", TRUE, "")
  /\ intake = IdleIntake
  /\ scheduled_posts = << >>
  /\ sched = [e \in Execs |-> IdleExec]
  /\ promoted = [p \in PostIds |-> [claims |-> 0, creates |-> 0]]
  /\ derive = IdleDerive
  /\ AdaptersIdle

\* handler, lines 769-790: the record is taken and the child set to processing
CredStart(w, m) ==
  /\ worker[w].pc = "idle"
  /\ cred[w].pc = "idle"
  /\ BagIn(m, queue)
  /\ queue' = queue (-) SetToBag({m})
  /\ requests' = update_request_status(requests, m.request_id, m.destination,
                   "processing", StartLogs, Absent, Absent, clock, TRUE, TRUE)
  /\ worker' = [worker EXCEPT ![w] =
                  [pc |-> "adapter", msg |-> m, logs |-> StartLogs, overall |-> ""]]
  /\ cred' = [cred EXCEPT ![w] =
                [IdleCred EXCEPT !.pc = "fetch", !.request_id = m.request_id,
                                 !.destination = m.destination]]
  /\ clock' = Tick
  /\ UNCHANGED <<redelivered, resubmits, response, intake, schedVars, derive, listing, adapterVars,
                 accounts, provider>>

\* process_<platform>_post: get_item of the account, then the refresh decision
CredFetch(w) ==
  /\ cred[w].pc = "fetch"
  /\ cred' = [cred EXCEPT ![w] =
       after_fetch(cred[w], platform_of(cred[w].destination),
                   accounts[account_key(worker[w].msg.user_id, cred[w].destination)],
                   CurrentTime)]
  /\ UNCHANGED <<coreVars, schedVars, derive, listing, adapterVars, accounts, provider>>

\* the refresh call. The platform answers (ok) or the call fails; a rotating
\* platform accepts only the refresh token it issued last. For facebook and
\* instagram the access token itself is exchanged.
CredRefresh(w, ok) ==
  /\ cred[w].pc = "refresh"
  /\ LET platform == platform_of(cred[w].destination)
         presented == IF platform \in {"facebook", "instagram"}
                      THEN cred[w].read.access_token
                      ELSE cred[w].read.refresh_token
         accepted == ok /\ (rotating(platform) => presented = provider.refresh_token)
         n == provider.issued + 1
         new_refresh == IF rotating(platform) THEN RefreshTokenNo(n)
                        ELSE cred[w].read.refresh_token
     IN IF accepted
        THEN /\ provider' = [provider EXCEPT
                   !.issued = n,
                   !.refresh_token = IF rotating(platform) THEN new_refresh ELSE @,
                   !.access_tokens = @ \cup {AccessTokenNo(n)}]
             /\ cred' = [cred EXCEPT ![w].pc = "update",
                   ![w].new = [access_token |-> AccessTokenNo(n),
                               refresh_token |-> new_refresh,
                               token_expires_at |-> Expiry(CurrentTime + ExpiresIn)]]
        ELSE /\ cred' = [cred EXCEPT ![w] =
                   raise(cred[w],
                         IF platform = "youtube" THEN << >> ELSE RefreshFailedLogs,
                         "Failed to refresh token", TRUE)]
             /\ UNCHANGED provider
  /\ UNCHANGED <<coreVars, schedVars, derive, listing, adapterVars, accounts>>

\* (mutant of update_account_tokens: the new expiry is not stored)
update_account_tokens_mut(table, k, platform, new) ==
  [table EXCEPT ![k].access_token = new.access_token]

\* the update_item of the account after a refresh: access_token and
\* token_expires_at, and refresh_token as well for linkedin and tiktok
update_account_tokens(table, k, platform, new) ==
  [table EXCEPT
     ![k].access_token = new.access_token,
     ![k].token_expires_at = new.token_expires_at,
     ![k].refresh_token = IF rotating(platform) THEN new.refresh_token ELSE @]

\* the routine stores the refreshed tokens and goes on with the new token
CredUpdate(w) ==
  /\ cred[w].pc = "update"
  /\ accounts' = update_account_tokens(accounts,
                    account_key(worker[w].msg.user_id, cred[w].destination),
                    platform_of(cred[w].destination), cred[w].new)
  /\ cred' = [cred EXCEPT ![w].pc = "adapter", ![w].updated = TRUE,
                          ![w].access_token = cred[w].new.access_token,
                          ![w].logs = @ \o << LogEntry("INFO", "Token refreshed successfully") >>]
  /\ UNCHANGED <<coreVars, schedVars, derive, listing, adapterVars, provider>>

\* the adapter is called with the routine's access token and returns (ok)
\* or raises; the platform serves only a token it accepts
CredAdapter(w, ok) ==
  /\ cred[w].pc = "adapter"
  /\ ok => usable(cred[w].access_token)
  /\ LET called == [cred[w] EXCEPT
                      !.adapter_token = cred[w].access_token,
                      !.logs = @ \o << LogEntry("INFO", "Calling API...") >>]
     IN cred' = [cred EXCEPT ![w] =
          IF ok
          THEN [called EXCEPT
                  !.pc = "done",
                  !.out = [ok |-> TRUE, error |-> Absent,
                           result |-> adapter_result(platform_of(cred[w].destination))],
                  !.logs = @ \o << LogEntry("INFO", "API returned") >>]
          ELSE raise(called, << >>, "upload error", FALSE)]
  /\ UNCHANGED <<coreVars, schedVars, derive, listing, adapterVars, accounts, provider>>

\* handler, lines 825-856: the terminal write with the whole buffer
CredFinish(w) ==
  /\ cred[w].pc = "done"
  /\ LET m == worker[w].msg
         out == cred[w].out
         logs == worker[w].logs \o cred[w].logs \o FinishLogs(out)
     IN requests' =
          IF out.ok
          THEN update_request_status(requests, m.request_id, m.destination,
                 "completed", logs, Absent, out.result, clock, TRUE, TRUE)
          ELSE update_request_status(requests, m.request_id, m.destination,
                 "failed", logs, out.error, Absent, clock, TRUE, TRUE)
  /\ worker' = [worker EXCEPT ![w] = IdleWorker]
  /\ cred' = [cred EXCEPT ![w].pc = "returned"]
  /\ clock' = Tick
  /\ UNCHANGED <<queue, redelivered, resubmits, response, intake, schedVars,
                 derive, listing, adapterVars, accounts, provider>>

NextCred ==
  \/ \E w \in Workers, m \in Messages : CredStart(w, m)
  \/ \E w \in Workers : CredFetch(w)
  \/ \E w \in Workers, ok \in BOOLEAN : CredRefresh(w, ok)
  \/ \E w \in Workers : CredUpdate(w)
  \/ \E w \in Workers, ok \in BOOLEAN : CredAdapter(w, ok)
  \/ \E w \in Workers : CredFinish(w)

SpecCred == InitCred /\ [][NextCred]_vars

\* the tokens stored for the account of a child
Secrets(d) ==
  LET k == account_key(UserId, d)
  IN IF k \in DOMAIN accounts
     THEN {accounts[k].access_token, accounts[k].refresh_token} \ {Absent}
     ELSE {}

\* C13: no log entry, error or result written into a child record contains
\* the access_token or the refresh_token of the child's account.
C13_NoSecretsInRequestStore ==
  \A r \in DOMAIN requests : \A d \in DOMAIN requests[r].destinations :
    LET child == requests[r].destinations[d]
    IN /\ \A i \in 1..Len(child.logs) : child.logs[i].shows \cap Secrets(d) = {}
       /\ child.error \notin Secrets(d)
       /\ child.result \notin Secrets(d)

\* ---------------------------------------------------------------------
\* The account registry read by the API: list_accounts and get_account on
\* stored sets of accounts of two users.
\* ---------------------------------------------------------------------

Users == {"U", "U2"}

RegistryIds == {"facebook:P1", "twitter:T9", "youtube:Y1"}

\* the platform argument of list_accounts: a platform, or None
PlatformFilters == {"facebook", "twitter", "youtube", "linkedin", Absent}

\* table.query(KeyConditionExpression='user_id = :user_id')
query_accounts(table, user_id) ==
  { table[k] : k \in { x \in DOMAIN table : x[1] = user_id } }

\* (mutant of list_accounts: only access_token is removed)
list_accounts_mut(table, user_id, platform) ==
  LET items == query_accounts(table, user_id)
      filtered == IF Truthy(platform)
                  THEN { acc \in items : acc.platform = platform }
                  ELSE items
  IN { [ f \in DOMAIN acc \ {"access_token"} |-> acc[f] ] : acc \in filtered }

\* SocialAccountManager.list_accounts: query, optional platform filter, and
\* access_token and refresh_token popped from every returned item
list_accounts(table, user_id, platform) ==
  LET items == query_accounts(table, user_id)
      filtered == IF Truthy(platform)
                  THEN { acc \in items : acc.platform = platform }
                  ELSE items
  IN { [ f \in DOMAIN acc \ {"access_token", "refresh_token"} |-> acc[f] ] :
       acc \in filtered }

\* SocialAccountManager.get_account: the item, or None
get_account(table, user_id, account_id) ==
  IF account_key(user_id, account_id) \in DOMAIN table
  THEN { table[account_key(user_id, account_id)] }
  ELSE {}

InitAccounts ==
  /\ BaseInit
  /\ derive = IdleDerive
  /\ cred = [w \in Workers |-> IdleCred]
  /\ provider = IdleProvider
  /\ AdaptersIdle
  /\ \E K \in SUBSET (Users \X RegistryIds), yt \in RefreshTokensOf("youtube") :
       accounts = [ k \in K |->
         account_item(k[1], k[2], platform_of(k[2]),
                      IF platform_of(k[2]) = "youtube" THEN yt
                      ELSE CHOOSE rt \in RefreshTokensOf(platform_of(k[2])) : TRUE,
                      Expiry(CurrentTime + 1)) ]

ListAccounts(user_id, platform) ==
  /\ listing' = [op |-> "list", user_id |-> user_id, arg |-> platform,
                 items |-> list_accounts(accounts, user_id, platform)]
  /\ UNCHANGED <<coreVars, schedVars, derive, credVars, adapterVars>>

GetAccount(user_id, account_id) ==
  /\ listing' = [op |-> "get", user_id |-> user_id, arg |-> account_id,
                 items |-> get_account(accounts, user_id, account_id)]
  /\ UNCHANGED <<coreVars, schedVars, derive, credVars, adapterVars>>

NextAccounts ==
  \/ \E u \in Users, p \in PlatformFilters : ListAccounts(u, p)
  \/ \E u \in Users, a \in RegistryIds : GetAccount(u, a)

SpecAccounts == InitAccounts /\ [][NextAccounts]_vars

\* C14: no account returned by list_accounts has an access_token or a
\* refresh_token field, for every user, platform filter and stored set of
\* accounts; get_account for a stored key returns the stored row with both.
C14_ListHidesSecrets ==
  /\ listing.op = "list" =>
       /\ \A acc \in listing.items :
            "access_token" \notin DOMAIN acc /\ "refresh_token" \notin DOMAIN acc
       /\ { acc.account_id : acc \in listing.items }
            = { k[2] : k \in { x \in DOMAIN accounts :
                  /\ x[1] = listing.user_id
                  /\ Truthy(listing.arg) => accounts[x].platform = listing.arg } }
  /\ (listing.op = "get"
        /\ account_key(listing.user_id, listing.arg) \in DOMAIN accounts) =>
       /\ listing.items = { accounts[account_key(listing.user_id, listing.arg)] }
       /\ \A acc \in listing.items :
            {"access_token", "refresh_token"} \subseteq DOMAIN acc

\* a listing that returned an account whose stored row holds both tokens
C14_Witness ==
  /\ listing.op = "list"
  /\ \E acc \in listing.items :
       LET row == accounts[account_key(acc.user_id, acc.account_id)]
       IN Truthy(row.access_token) /\ Truthy(row.refresh_token)

\* the run of worker w (as the record c) ended in a credential error: the
\* token needed a refresh and no refreshed token was stored
CredentialError(c) ==
  c.needs_refresh /\ ~c.updated /\ c.pc \in {"done", "returned"}

\* C15: when the token needs a refresh and the refresh fails, or no refresh
\* token is stored, the adapter is not invoked, the stored credentials are
\* unchanged, the child ends 'failed' with a non-empty error and no job is
\* enqueued.
C15_CredentialErrorTerminal ==
  [][ \A w \in Workers :
        (cred'[w] # cred[w] /\ CredentialError(cred'[w])) =>
          /\ cred'[w].adapter_token = ""
          /\ cred'[w].cred_error
          /\ accounts' = accounts
          /\ queue' = queue
          /\ cred'[w].pc = "returned" =>
               LET child == requests'[cred[w].request_id]
                              .destinations[cred[w].destination]
               IN child.status = "failed" /\ Truthy(child.error) ]_vars

\* a youtube job whose refresh call failed has ended with its child failed
C15_Witness ==
  \E w \in Workers :
    /\ cred[w].pc = "returned"
    /\ CredentialError(cred[w])
    /\ cred[w].attempted
    /\ platform_of(cred[w].destination) = "youtube"
    /\ requests[cred[w].request_id].destinations[cred[w].destination].status
         = "failed"

\* the window W of the policy, per platform
C16_Window(platform) ==
  CASE platform \in {"facebook", "instagram", "linkedin"} -> 604800
    [] platform = "tiktok" -> 300
    [] OTHER -> 0

\* C16: the worker attempts a refresh if and only if token_expires_at = E is
\* set (not null, not zero) and T >= E - W, with W = 604800 for facebook,
\* instagram and linkedin, 300 for tiktok and 0 for youtube, and never for
\* twitter; when no refresh is attempted the stored access token is passed
\* to the adapter unchanged.
C16_RefreshWindowPolicy ==
  \A w \in Workers :
    cred[w].pc \notin {"idle", "fetch"} =>
      LET platform == platform_of(cred[w].destination)
          E == cred[w].read.token_expires_at
          due == /\ platform # "twitter"
                 /\ ~E.null
                 /\ E.value # 0
                 /\ CurrentTime >= E.value - C16_Window(platform)
      IN /\ cred[w].needs_refresh <=> due
         /\ ~cred[w].needs_refresh =>
              \/ cred[w].pc = "adapter"
                   /\ cred[w].access_token = cred[w].read.access_token
              \/ cred[w].adapter_token = cred[w].read.access_token

\* C17: whenever the worker refreshes a token (a YouTube account whose
\* token_expires_at is in the past), the new access token and its new
\* expiry are written to the account registry before the adapter is called,
\* the adapter is called with the new token and not the expired one, and
\* with the adapter returning the child ends 'completed' with a video_id.
C17_RefreshBeforeUse ==
  [][ \A w \in Workers :
        LET k == account_key(UserId, cred[w].destination)
        IN /\ (cred'[w].updated /\ ~cred[w].updated) =>
                /\ accounts'[k].access_token = cred[w].new.access_token
                /\ accounts'[k].token_expires_at = cred[w].new.token_expires_at
                /\ cred[w].new.token_expires_at.value > CurrentTime
                /\ cred'[w].adapter_token = ""
           /\ (cred[w].needs_refresh /\ cred[w].adapter_token = ""
                 /\ cred'[w].adapter_token # "") =>
                /\ cred[w].updated
                /\ cred'[w].adapter_token = cred[w].new.access_token
                /\ cred'[w].adapter_token # cred[w].read.access_token
           /\ (cred[w].updated /\ cred[w].pc = "done" /\ cred[w].out.ok
                 /\ cred'[w].pc = "returned") =>
                LET child == requests'[cred[w].request_id]
                               .destinations[cred[w].destination]
                IN child.status = "completed" /\ child.result = "video_id" ]_vars

\* a YouTube job that refreshed an expired token has ended 'completed'
C17_Witness ==
  \E w \in Workers :
    /\ cred[w].pc = "returned"
    /\ platform_of(cred[w].destination) = "youtube"
    /\ cred[w].read.token_expires_at.value <= CurrentTime
    /\ cred[w].updated
    /\ cred[w].adapter_token = cred[w].new.access_token
    /\ requests[cred[w].request_id].destinations[cred[w].destination].status
         = "completed"

\* C18: when two workers refresh the same account of a platform that
\* rotates the refresh token (linkedin, tiktok), both obtain a usable access
\* token, and when both have finished the stored (access_token,
\* refresh_token, token_expires_at) is the triple of one refresh response
\* and its refresh token is the one the platform accepts.
C18_ConcurrentRefreshConverges ==
  ( \A w \in Workers :
      /\ cred[w].pc = "returned"
      /\ rotating(platform_of(cred[w].destination))
      /\ cred[w].needs_refresh
      /\ Truthy(cred[w].read.refresh_token) )
  => /\ \A w \in Workers : cred[w].updated /\ usable(cred[w].access_token)
     /\ \E w \in Workers :
          LET row == accounts[account_key(UserId, cred[w].destination)]
          IN /\ row.access_token = cred[w].new.access_token
             /\ row.refresh_token = cred[w].new.refresh_token
             /\ row.token_expires_at = cred[w].new.token_expires_at
             /\ row.refresh_token = provider.refresh_token

\* ---------------------------------------------------------------------
\* The Instagram adapter inside a worker run: post_reel call by call (init,
\* chunk uploads, status polls, publish), between the account read and the
\* terminal write of the handler.
\* ---------------------------------------------------------------------

\* chunk_size = 5 * 1024 * 1024
ChunkSize == 5242880

\* max_retries of the status poll
MaxRetries == 5

\* os.path.getsize of the downloaded video
FileSizes == {1, ChunkSize, ChunkSize + 1, 2 * ChunkSize + 1}

\* what a status poll answers: a 200 with a status_code, or another status
PollAnswers ==
  {"FINISHED", "ERROR", "IN_PROGRESS", "PUBLISHED", "EXPIRED", "HTTP 500"}

\* the dict post_reel returns, as the worker stores it in the child
result_string(result) ==
  CASE result.status = "processing" /\ result.id = "C1" -> "processing:C1"
    [] result.status = "published" /\ result.id = "M1" -> "published:M1"
    [] OTHER -> Absent

\* (mutant of poll_next: running out of polls raises)
poll_next_mut(g, answer) ==
  IF answer = "FINISHED" THEN [g EXCEPT !.pc = "publish", !.last = answer]
  ELSE IF answer = "ERROR" THEN [g EXCEPT !.pc = "raised", !.last = answer]
  ELSE IF g.attempt + 1 < MaxRetries
  THEN [g EXCEPT !.attempt = @ + 1, !.last = answer]
  ELSE [g EXCEPT !.attempt = @ + 1, !.last = answer, !.pc = "raised"]

\* post_reel, lines 178-252: one pass of the poll loop. FINISHED goes on to
\* media_publish, ERROR raises, anything else sleeps and retries; after the
\* last attempt the call returns the 'processing' result with the container
poll_next(g, answer) ==
  IF answer = "FINISHED" THEN [g EXCEPT !.pc = "publish", !.last = answer]
  ELSE IF answer = "ERROR" THEN [g EXCEPT !.pc = "raised", !.last = answer]
  ELSE IF g.attempt + 1 < MaxRetries
  THEN [g EXCEPT !.attempt = @ + 1, !.last = answer]
  ELSE [g EXCEPT !.attempt = @ + 1, !.last = answer, !.pc = "returned",
                 !.result = [status |-> "processing", id |-> g.container_id]]

\* process_instagram_post after post_reel: the result is logged and
\* returned, or the error is logged and raised again
ig_outcome(c, g) ==
  IF g.pc = "returned"
  THEN [c EXCEPT !.pc = "done",
                 !.out = [ok |-> TRUE, error |-> Absent,
                          result |-> result_string(g.result)],
                 !.logs = @ \o << LogEntry("INFO", "API returned") >>]
  ELSE IF g.pc = "raised" THEN raise(c, << >>, "Instagram API error", FALSE)
  ELSE c

InitIg ==
  /\ accounts = [ k \in {account_key(UserId, "instagram:I1")} |->
                    account_item(UserId, "instagram:I1", "instagram", Absent,
                                 Expiry(CurrentTime + MetaWindow + 1)) ]
  /\ provider = IdleProvider
  /\ requests = [ r \in {"r1"} |->
                    request_item(UserId, VideoUrl, Caption, <<"instagram:I1">>, 0) ]
  /\ queue = SetToBag({JobMessage("r1", UserId, "instagram:I1", VideoUrl, Caption)})
  /\ cred = [w \in Workers |-> IdleCred]
  /\ worker = [w \in Workers |-> IdleWorker]
  /\ clock = 0
  /\ redelivered = 0
  /\ resubmits = 0
  /\ response = Response("", TRUE, "")
  /\ intake = IdleIntake
  /\ scheduled_posts = << >>
  /\ sched = [e \in Execs |-> IdleExec]
  /\ promoted = [p \in PostIds |-> [claims |-> 0, creates |-> 0]]
  /\ derive = IdleDerive
  /\ AdaptersIdle

\* post_reel, lines 85-127: download, then the init POST
IgInit(w, size, ok) ==
  /\ cred[w].pc = "adapter"
  /\ platform_of(cred[w].destination) = "instagram"
  /\ ig.pc = "idle"
  /\ ig' = IF ok
           THEN [ig EXCEPT !.pc = "upload", !.file_size = size,
                           !.container_id = "C1"]
           ELSE [ig EXCEPT !.pc = "raised", !.file_size = size]
  /\ cred' = [cred EXCEPT ![w] =
       ig_outcome([cred[w] EXCEPT
                     !.adapter_token = cred[w].access_token,
                     !.logs = @ \o << LogEntry("INFO", "Calling API...") >>], ig')]
  /\ UNCHANGED <<coreVars, schedVars, derive, accounts, provider, listing, tw, tk, batch, li, resub>>

\* status codes the upload URL answers a chunk POST with
UploadStatuses == {200, 201, 206, 204, 500}

\* (mutant of upload_next: a refused chunk is logged and the loop goes on)
upload_next_mut(g, status) ==
  LET len == Min(ChunkSize, g.file_size - g.offset)
      posted == [g EXCEPT !.sent = Append(@, g.offset),
                          !.statuses = Append(@, status)]
  IN IF g.offset + len < g.file_size
     THEN [posted EXCEPT !.offset = @ + len]
     ELSE [posted EXCEPT !.offset = @ + len, !.pc = "poll"]

\* post_reel, lines 136-165: one pass of the chunk loop.  The chunk read is
\* chunk_size bytes or what is left of the file; the POST carries the
\* offset; any status but 200, 201, 206 raises, otherwise offset advances
\* by the length of the chunk and the loop ends at file_size.
upload_next(g, status) ==
  LET len == Min(ChunkSize, g.file_size - g.offset)
      posted == [g EXCEPT !.sent = Append(@, g.offset),
                          !.statuses = Append(@, status)]
  IN IF status \notin {200, 201, 206} THEN [posted EXCEPT !.pc = "raised"]
     ELSE IF g.offset + len < g.file_size
     THEN [posted EXCEPT !.offset = @ + len]
     ELSE [posted EXCEPT !.offset = @ + len, !.pc = "poll"]

\* post_reel, lines 136-165: one chunk POST and its answer
IgUpload(w, status) ==
  /\ ig.pc = "upload"
  /\ cred[w].pc = "adapter"
  /\ ig' = upload_next(ig, status)
  /\ cred' = [cred EXCEPT ![w] = ig_outcome(cred[w], ig')]
  /\ UNCHANGED <<coreVars, schedVars, derive, accounts, provider, listing, tw, tk, batch, li, resub>>

\* post_reel, lines 178-238: one status poll
IgPoll(w, answer) ==
  /\ ig.pc = "poll"
  /\ cred[w].pc = "adapter"
  /\ ig' = [poll_next(ig, answer) EXCEPT !.polls = @ + 1]
  /\ cred' = [cred EXCEPT ![w] = ig_outcome(cred[w], ig')]
  /\ UNCHANGED <<coreVars, schedVars, derive, accounts, provider, listing, tw, tk, batch, li, resub>>

\* (mutant of publish_next: the answer of media_publish is not looked at)
publish_next_mut(g, ok) ==
  [g EXCEPT !.pc = "returned", !.publishes = @ + 1,
            !.creation_id = g.container_id, !.publish_ok = ok,
            !.result = [status |-> "published", id |-> "M1"]]

\* post_reel, lines 196-225: media_publish with creation_id = container_id;
\* a status other than 200 raises, a 200 returns the 'published' result
publish_next(g, ok) ==
  IF ok
  THEN [g EXCEPT !.pc = "returned", !.publishes = @ + 1,
                 !.creation_id = g.container_id, !.publish_ok = ok,
                 !.result = [status |-> "published", id |-> "M1"]]
  ELSE [g EXCEPT !.pc = "raised", !.publishes = @ + 1,
                 !.creation_id = g.container_id, !.publish_ok = ok]

\* post_reel, lines 196-225: media_publish of the container
IgPublish(w, ok) ==
  /\ ig.pc = "publish"
  /\ cred[w].pc = "adapter"
  /\ ig' = publish_next(ig, ok)
  /\ cred' = [cred EXCEPT ![w] = ig_outcome(cred[w], ig')]
  /\ UNCHANGED <<coreVars, schedVars, derive, accounts, provider, listing, tw, tk, batch, li, resub>>

NextIg ==
  \/ \E w \in Workers, m \in Messages : CredStart(w, m)
  \/ \E w \in Workers : CredFetch(w)
  \/ \E w \in Workers, size \in FileSizes, ok \in BOOLEAN : IgInit(w, size, ok)
  \/ \E w \in Workers, status \in UploadStatuses : IgUpload(w, status)
  \/ \E w \in Workers, answer \in PollAnswers : IgPoll(w, answer)
  \/ \E w \in Workers, ok \in BOOLEAN : IgPublish(w, ok)
  \/ \E w \in Workers : CredFinish(w)

SpecIg == InitIg /\ [][NextIg]_vars

\* C19: when init and all chunk uploads succeed and no status poll returns
\* FINISHED or ERROR, post_reel returns a result with status 'processing'
\* and the container id, media_publish is never called, and the worker
\* records the child 'completed' with that result.
C19_BudgetExhaustionIsSuccess ==
  ig.attempt = MaxRetries =>
    /\ ig.pc = "returned"
    /\ ig.result = [status |-> "processing", id |-> ig.container_id]
    /\ ig.container_id = "C1"
    /\ ig.publishes = 0
    /\ \A w \in Workers :
         cred[w].pc \in {"done", "returned"} =>
           /\ cred[w].out.ok
           /\ cred[w].pc = "returned" =>
                LET child == requests["r1"].destinations["instagram:I1"]
                IN child.status = "completed" /\ child.result = "processing:C1"

\* a run whose five polls all answered without FINISHED or ERROR has been
\* written to the child
C19_Witness ==
  /\ ig.attempt = MaxRetries
  /\ Len(ig.sent) = 3
  /\ \E w \in Workers : cred[w].pc = "returned"
  /\ requests["r1"].destinations["instagram:I1"].status = "completed"

\* ---------------------------------------------------------------------
\* The Twitter adapter: post_video call by call (download, INIT, APPENDs,
\* FINALIZE, STATUS polls while the media is processed, tweet). `tw.calls`
\* is the sequence of upload and tweet requests sent to the platform, each
\* with its answer; `tw.polls` counts the STATUS requests.
\* ---------------------------------------------------------------------

\* 512 * 1024 * 1024
MAX_VIDEO_SIZE == 536870912

\* 5 * 1024 * 1024
CHUNK_SIZE == 5242880

\* max_wait and check_interval of _wait_for_processing
MaxWait == 300

CheckInterval == 5

\* len(video_response.content)
VideoSizes ==
  {1, CHUNK_SIZE, CHUNK_SIZE + 1, 4 * CHUNK_SIZE, MAX_VIDEO_SIZE,
   MAX_VIDEO_SIZE + 1}

\* STATUS requests of one call the model follows
MaxPolls == 60

\* processing_info.check_after_secs of a STATUS answer still in progress
CheckAfters == {NoCheckAfter, CheckAfter(0), CheckAfter(150)}

FinalizeAnswers ==
  {"no processing_info", "succeeded", "pending", "in_progress", "failed",
   "HTTP 500"}

\* a STATUS answer: another status code, or 200 with a processing state
StatusAnswers ==
  {[code |-> 500, state |-> "", check_after |-> NoCheckAfter]}
  \cup {[code |-> 200, state |-> state, check_after |-> NoCheckAfter] :
          state \in {"succeeded", "failed"}}
  \cup {[code |-> 200, state |-> state, check_after |-> check_after] :
          state \in {"pending", "in_progress"}, check_after \in CheckAfters}

\* one request to the platform and whether its status code was accepted
Call(command, media_id, segment_index, offset, size, ok) ==
  [ command |-> command, media_id |-> media_id,
    segment_index |-> segment_index, offset |-> offset, size |-> size,
    ok |-> ok ]

\* (mutant of append_chunk: the segment index is not advanced)
append_chunk_mut(t, ok) ==
  LET size == Min(CHUNK_SIZE, t.video_size - t.offset)
      sent == [t EXCEPT !.calls = Append(@, Call("APPEND", t.media_id,
                                    t.segment_index, t.offset, size, ok))]
  IN IF ~ok THEN [sent EXCEPT !.pc = "raised"]
     ELSE [sent EXCEPT !.offset = @ + size,
                       !.pc = IF t.offset + size < t.video_size
                              THEN "append" ELSE "finalize"]

\* _chunked_upload, lines 262-311: one pass of the APPEND loop
append_chunk(t, ok) ==
  LET size == Min(CHUNK_SIZE, t.video_size - t.offset)
      sent == [t EXCEPT !.calls = Append(@, Call("APPEND", t.media_id,
                                    t.segment_index, t.offset, size, ok))]
  IN IF ~ok THEN [sent EXCEPT !.pc = "raised"]
     ELSE [sent EXCEPT !.offset = @ + size, !.segment_index = @ + 1,
                       !.pc = IF t.offset + size < t.video_size
                              THEN "append" ELSE "finalize"]

\* post_video, lines 136-148: download and the size limit
TwDownload(size, ok) ==
  /\ tw.pc = "idle"
  /\ tw' = IF ~ok THEN [tw EXCEPT !.pc = "raised"]
           ELSE IF size > MAX_VIDEO_SIZE
           THEN [tw EXCEPT !.pc = "raised", !.video_size = size]
           ELSE [tw EXCEPT !.pc = "init", !.video_size = size]
  /\ UNCHANGED <<coreVars, schedVars, derive, credVars, listing, ig, tk, batch, li, resub>>

\* _chunked_upload, lines 216-255: INIT
TwInit(ok) ==
  /\ tw.pc = "init"
  /\ LET sent == [tw EXCEPT !.calls =
                    Append(@, Call("INIT", "", 0, 0, tw.video_size, ok))]
     IN tw' = IF ~ok THEN [sent EXCEPT !.pc = "raised"]
              ELSE [sent EXCEPT !.media_id = "M7",
                                !.pc = IF 0 < tw.video_size
                                       THEN "append" ELSE "finalize"]
  /\ UNCHANGED <<coreVars, schedVars, derive, credVars, listing, ig, tk, batch, li, resub>>

\* _chunked_upload, lines 262-311: APPEND
TwAppend(ok) ==
  /\ tw.pc = "append"
  /\ tw' = append_chunk(tw, ok)
  /\ UNCHANGED <<coreVars, schedVars, derive, credVars, listing, ig, tk, batch, li, resub>>

\* _chunked_upload, lines 315-370: FINALIZE; a pending or in_progress
\* processing state waits for the platform
TwFinalize(answer) ==
  /\ tw.pc = "finalize"
  /\ LET ok == answer # "HTTP 500"
         sent == [tw EXCEPT !.calls =
                    Append(@, Call("FINALIZE", tw.media_id, 0, 0, 0, ok))]
     IN tw' = IF ~ok THEN [sent EXCEPT !.pc = "raised"]
              ELSE IF answer \in {"pending", "in_progress"}
              THEN [sent EXCEPT !.pc = "wait", !.finalized = answer]
              ELSE [sent EXCEPT !.pc = "tweet", !.finalized = answer]
  /\ UNCHANGED <<coreVars, schedVars, derive, credVars, listing, ig, tk, batch, li, resub>>

\* (mutant of status_next: running out of time goes on to the tweet)
status_next_mut(t, answer) ==
  LET polled == [t EXCEPT !.polls = @ + 1, !.status = answer]
      check_after ==
        IF answer.code = 200 /\ answer.check_after.present
        THEN answer.check_after.secs ELSE CheckInterval
      waited == [polled EXCEPT !.slept = check_after,
                               !.elapsed = @ + check_after]
  IN IF answer.code = 200 /\ answer.state = "succeeded"
     THEN [polled EXCEPT !.pc = "tweet"]
     ELSE IF answer.code = 200 /\ answer.state = "failed"
     THEN [polled EXCEPT !.pc = "raised"]
     ELSE IF waited.elapsed < MaxWait THEN waited
     ELSE [waited EXCEPT !.pc = "tweet"]

\* _wait_for_processing, lines 401-443: one pass of the loop. 'succeeded'
\* returns, 'failed' raises, anything else sleeps check_after_secs (the
\* check interval when the key is missing or the status code is not 200)
\* and adds it to elapsed; the loop ends in the timeout error
status_next(t, answer) ==
  LET polled == [t EXCEPT !.polls = @ + 1, !.status = answer]
      check_after ==
        IF answer.code = 200 /\ answer.check_after.present
        THEN answer.check_after.secs ELSE CheckInterval
      waited == [polled EXCEPT !.slept = check_after,
                               !.elapsed = @ + check_after]
  IN IF answer.code = 200 /\ answer.state = "succeeded"
     THEN [polled EXCEPT !.pc = "tweet"]
     ELSE IF answer.code = 200 /\ answer.state = "failed"
     THEN [polled EXCEPT !.pc = "raised"]
     ELSE IF waited.elapsed < MaxWait THEN waited
     ELSE [waited EXCEPT !.pc = "raised"]

\* _wait_for_processing, lines 400-443: one STATUS poll
TwStatus(answer) ==
  /\ tw.pc = "wait"
  /\ tw.elapsed < MaxWait
  /\ tw.polls < MaxPolls
  /\ tw' = status_next(tw, answer)
  /\ UNCHANGED <<coreVars, schedVars, derive, credVars, listing, ig, tk, batch, li, resub>>

\* _create_tweet and the return of post_video
TwTweet(ok) ==
  /\ tw.pc = "tweet"
  /\ tw' = [tw EXCEPT
              !.calls = Append(@, Call("TWEET", tw.media_id, 0, 0, 0, ok)),
              !.pc = IF ok THEN "returned" ELSE "raised"]
  /\ UNCHANGED <<coreVars, schedVars, derive, credVars, listing, ig, tk, batch, li, resub>>

NextTw ==
  \/ \E size \in VideoSizes, ok \in BOOLEAN : TwDownload(size, ok)
  \/ \E ok \in BOOLEAN : TwInit(ok)
  \/ \E ok \in BOOLEAN : TwAppend(ok)
  \/ \E answer \in FinalizeAnswers : TwFinalize(answer)
  \/ \E answer \in StatusAnswers : TwStatus(answer)
  \/ \E ok \in BOOLEAN : TwTweet(ok)

SpecTw == Init /\ [][NextTw]_vars

\* C20: for a video of n bytes, 1 <= n <= 512 MiB, the adapter issues in
\* order one INIT, exactly ceil(n / 5 MiB) APPENDs with segment_index 0, 1,
\* 2, ... whose chunks cover the bytes contiguously, one FINALIZE and then
\* one tweet carrying the media_id from INIT; a larger video fails before
\* INIT; a non-success response to any step raises and nothing is issued
\* after it.
C20_UploadProtocolOrder ==
  LET n == tw.video_size
      steps == tw.calls
      k == (n + 5242880 - 1) \div 5242880
  IN /\ (tw.pc # "idle" /\ n > 536870912) =>
          tw.pc = "raised" /\ tw.calls = << >>
     /\ Len(steps) <= k + 3
     /\ \A i \in DOMAIN steps :
          /\ i = 1 => steps[i].command = "INIT" /\ steps[i].size = n
          /\ (2 <= i /\ i <= k + 1) =>
               /\ steps[i].command = "APPEND"
               /\ steps[i].segment_index = i - 2
               /\ steps[i].offset = (i - 2) * 5242880
               /\ steps[i].size >= 1
               /\ steps[i].size = IF i < k + 1 THEN 5242880
                                  ELSE n - steps[i].offset
               /\ steps[i].media_id = tw.media_id
          /\ i = k + 2 => steps[i].command = "FINALIZE"
                          /\ steps[i].media_id = tw.media_id
          /\ i = k + 3 => steps[i].command = "TWEET"
                          /\ steps[i].media_id = tw.media_id
          /\ i > 1 => tw.media_id = "M7"
     /\ tw.pc = "returned" => Len(steps) = k + 3
     /\ \A i \in DOMAIN tw.calls :
          ~tw.calls[i].ok =>
            i = Len(tw.calls) /\ tw.pc = "raised"

\* a 20 MiB video went through INIT, four APPENDs, FINALIZE and the tweet
C20_Witness ==
  /\ tw.pc = "returned"
  /\ tw.video_size = 4 * CHUNK_SIZE
  /\ Len(tw.calls) = 7

\* C21: when FINALIZE answers a processing state pending or in_progress, the
\* tweet is created only after a STATUS poll has answered 'succeeded'; the
\* wait after each non-terminal poll equals the server's check_after_secs
\* (5 s when absent or when the poll was not answered 200); a 'failed' state
\* raises; and when the accumulated wait reaches 300 s without 'succeeded'
\* the call raises and no tweet is created.
C21_ProcessingPoll ==
  [][ LET Tweeted(t) == \E i \in DOMAIN t.calls : t.calls[i].command = "TWEET"
          a == tw'.status
          terminal == a.code = 200 /\ a.state \in {"succeeded", "failed"}
      IN /\ (tw.finalized \in {"pending", "in_progress"}
              /\ ~Tweeted(tw) /\ Tweeted(tw')) =>
               tw.status.code = 200 /\ tw.status.state = "succeeded"
         /\ (tw.pc = "finalize" /\ tw'.finalized \in {"pending", "in_progress"}) =>
               tw'.pc = "wait" /\ ~Tweeted(tw')
         /\ tw'.polls = tw.polls + 1 =>
              /\ ~Tweeted(tw')
              /\ (a.code = 200 /\ a.state = "failed") => tw'.pc = "raised"
              /\ (a.code = 200 /\ a.state = "succeeded") => tw'.pc = "tweet"
              /\ ~terminal =>
                   /\ tw'.slept = IF a.code = 200 /\ a.check_after.present
                                  THEN a.check_after.secs ELSE 5
                   /\ tw'.elapsed = tw.elapsed + tw'.slept
                   /\ tw'.pc = IF tw'.elapsed >= 300 THEN "raised" ELSE "wait"
         /\ (tw.pc = "raised" \/ tw.elapsed >= 300) => tw'.calls = tw.calls
    ]_vars

\* the wait ran out: two polls answered in_progress with check_after_secs
\* 150, the call raised and sent no tweet
C21_Witness ==
  /\ tw.finalized = "in_progress"
  /\ tw.pc = "raised"
  /\ tw.polls = 2
  /\ tw.elapsed = 300
  /\ tw.status.state = "in_progress"
  /\ tw.calls[Len(tw.calls)].command = "FINALIZE"

\* C23: the status poll loop terminates after a bounded number of
\* iterations for every sequence of platform responses, every non-negative
\* check_after_secs included: each pass of the Twitter loop that does not
\* leave it moves elapsed towards max_wait.
C23_BoundedPollLoops ==
  [][ (tw'.polls = tw.polls + 1 /\ tw'.pc = "wait") =>
        tw'.elapsed > tw.elapsed ]_vars

\* ---------------------------------------------------------------------
\* The TikTok adapter inside a worker run: post_video call by call
\* (download, init, the PUT attempts of _upload_video, the status fetch).
\* `tk.puts` is the sequence of PUT attempts, each with the timeout it was
\* given and how it ended.
\* ---------------------------------------------------------------------

\* max_retries and base_timeout of _upload_video
UploadMaxRetries == 3

BaseTimeout == 180

TkVideoSizes == {1, 1000, 50000000}

\* how requests.put and raise_for_status can end
PutOutcomes ==
  {"200", "ReadTimeout", "ConnectTimeout", "HTTP 400", "HTTP 500",
   "ConnectionError"}

\* requests.exceptions.Timeout and its subclasses
is_timeout(outcome) == outcome \in {"ReadTimeout", "ConnectTimeout"}

\* (mutant of put_attempt: a server error is retried like a timeout)
put_attempt_mut(g, outcome) ==
  LET timeout == BaseTimeout * (g.attempt + 1)
      put == [g EXCEPT !.puts = Append(@, [timeout |-> timeout,
                                           outcome |-> outcome])]
  IN IF outcome = "200" THEN [put EXCEPT !.pc = "fetch"]
     ELSE IF is_timeout(outcome) \/ outcome = "HTTP 500"
     THEN IF g.attempt < UploadMaxRetries - 1
          THEN [put EXCEPT !.attempt = @ + 1,
                           !.slept = Append(@, 2 ^ g.attempt)]
          ELSE [put EXCEPT !.pc = "raised", !.error = "TikTokPostingError"]
     ELSE [put EXCEPT !.pc = "raised", !.error = outcome]

\* _upload_video, lines 164-187: one pass of the retry loop
put_attempt(g, outcome) ==
  LET timeout == BaseTimeout * (g.attempt + 1)
      put == [g EXCEPT !.puts = Append(@, [timeout |-> timeout,
                                           outcome |-> outcome])]
  IN IF outcome = "200" THEN [put EXCEPT !.pc = "fetch"]
     ELSE IF is_timeout(outcome)
     THEN IF g.attempt < UploadMaxRetries - 1
          THEN [put EXCEPT !.attempt = @ + 1,
                           !.slept = Append(@, 2 ^ g.attempt)]
          ELSE [put EXCEPT !.pc = "raised", !.error = "TikTokPostingError"]
     ELSE [put EXCEPT !.pc = "raised", !.error = outcome]

\* process_tiktok_post after post_video: the result is logged and returned,
\* or the error is logged and raised again
tk_outcome(c, g) ==
  IF g.pc = "returned"
  THEN [c EXCEPT !.pc = "done",
                 !.out = [ok |-> TRUE, error |-> Absent,
                          result |-> "success:PUB1"],
                 !.logs = @ \o << LogEntry("INFO", "API returned") >>]
  ELSE IF g.pc = "raised" THEN raise(c, << >>, "TikTok API error", FALSE)
  ELSE c

InitTk ==
  /\ accounts = [ k \in {account_key(UserId, "tiktok:K1")} |->
                    account_item(UserId, "tiktok:K1", "tiktok", Absent,
                                 Expiry(CurrentTime + TikTokWindow + 1)) ]
  /\ provider = IdleProvider
  /\ requests = [ r \in {"r1"} |->
                    request_item(UserId, VideoUrl, Caption, <<"tiktok:K1">>, 0) ]
  /\ queue = SetToBag({JobMessage("r1", UserId, "tiktok:K1", VideoUrl, Caption)})
  /\ cred = [w \in Workers |-> IdleCred]
  /\ worker = [w \in Workers |-> IdleWorker]
  /\ clock = 0
  /\ redelivered = 0
  /\ resubmits = 0
  /\ response = Response("", TRUE, "")
  /\ intake = IdleIntake
  /\ scheduled_posts = << >>
  /\ sched = [e \in Execs |-> IdleExec]
  /\ promoted = [p \in PostIds |-> [claims |-> 0, creates |-> 0]]
  /\ derive = IdleDerive
  /\ AdaptersIdle

\* post_video, lines 46-68: download, then the init request; an answer
\* without publish_id or upload_url raises
TkInit(w, size, answer) ==
  /\ cred[w].pc = "adapter"
  /\ platform_of(cred[w].destination) = "tiktok"
  /\ tk.pc = "idle"
  /\ tk' = IF answer = "ok"
           THEN [tk EXCEPT !.pc = "upload", !.video_size = size,
                           !.publish_id = "PUB1"]
           ELSE [tk EXCEPT !.pc = "raised", !.video_size = size,
                           !.error = answer]
  /\ cred' = [cred EXCEPT ![w] =
       tk_outcome([cred[w] EXCEPT
                     !.adapter_token = cred[w].access_token,
                     !.logs = @ \o << LogEntry("INFO", "Calling API...") >>], tk')]
  /\ UNCHANGED <<coreVars, schedVars, derive, accounts, provider, listing, ig, tw, batch, li, resub>>

\* _upload_video: one PUT attempt
TkPut(w, outcome) ==
  /\ tk.pc = "upload"
  /\ cred[w].pc = "adapter"
  /\ tk' = put_attempt(tk, outcome)
  /\ cred' = [cred EXCEPT ![w] = tk_outcome(cred[w], tk')]
  /\ UNCHANGED <<coreVars, schedVars, derive, accounts, provider, listing, ig, tw, batch, li, resub>>

\* _publish_video: the status fetch, and the return of post_video
TkFetch(w, ok) ==
  /\ tk.pc = "fetch"
  /\ cred[w].pc = "adapter"
  /\ tk' = IF ok THEN [tk EXCEPT !.pc = "returned", !.fetches = @ + 1]
           ELSE [tk EXCEPT !.pc = "raised", !.fetches = @ + 1,
                           !.error = "HTTP 500"]
  /\ cred' = [cred EXCEPT ![w] = tk_outcome(cred[w], tk')]
  /\ UNCHANGED <<coreVars, schedVars, derive, accounts, provider, listing, ig, tw, batch, li, resub>>

NextTk ==
  \/ \E w \in Workers, m \in Messages : CredStart(w, m)
  \/ \E w \in Workers : CredFetch(w)
  \/ \E w \in Workers, size \in TkVideoSizes,
        answer \in {"ok", "HTTP 500", "Invalid init response"} :
       TkInit(w, size, answer)
  \/ \E w \in Workers, outcome \in PutOutcomes : TkPut(w, outcome)
  \/ \E w \in Workers, ok \in BOOLEAN : TkFetch(w, ok)
  \/ \E w \in Workers : CredFinish(w)

SpecTk == InitTk /\ [][NextTk]_vars

\* C22: _upload_video makes at most 3 PUT attempts, attempt k using
\* timeout 180*k seconds; a further attempt is made if and only if the
\* previous one ended in a timeout; the first successful attempt ends the
\* upload; an HTTP 4xx/5xx or other non-timeout error is raised at once; a
\* timeout on the third attempt raises TikTokPostingError; the status fetch
\* is issued only after a successful PUT.
C22_UploadRetry ==
  LET n == Len(tk.puts)
      Timeout(o) == o \in {"ReadTimeout", "ConnectTimeout"}
  IN /\ n <= 3
     /\ \A k \in 1..n :
          /\ tk.puts[k].timeout = 180 * k
          /\ k < n => Timeout(tk.puts[k].outcome)
     /\ (n >= 1 /\ tk.pc = "upload") => n < 3 /\ Timeout(tk.puts[n].outcome)
     /\ (n >= 1 /\ tk.puts[n].outcome = "200") =>
          tk.pc \in {"fetch", "returned", "raised"} /\ tk.error # "TikTokPostingError"
     /\ (n >= 1 /\ tk.puts[n].outcome # "200" /\ ~Timeout(tk.puts[n].outcome)) =>
          tk.pc = "raised" /\ tk.error = tk.puts[n].outcome /\ tk.fetches = 0
     /\ (n = 3 /\ Timeout(tk.puts[n].outcome)) =>
          tk.pc = "raised" /\ tk.error = "TikTokPostingError" /\ tk.fetches = 0
     /\ (n >= 1 /\ n < 3 /\ Timeout(tk.puts[n].outcome)) => tk.pc = "upload"
     /\ (tk.fetches > 0 \/ tk.pc \in {"fetch", "returned"}) =>
          n >= 1 /\ tk.puts[n].outcome = "200"
     /\ tk.fetches <= 1

\* two timeouts, then the third attempt with timeout 540 s succeeded and
\* the status fetch was made
C22_Witness ==
  /\ Len(tk.puts) = 3
  /\ tk.puts[1].outcome = "ReadTimeout"
  /\ tk.puts[2].outcome = "ConnectTimeout"
  /\ tk.puts[3] = [timeout |-> 540, outcome |-> "200"]
  /\ tk.pc = "returned"
  /\ tk.fetches = 1

\* C24: each child status write the worker makes ('processing' at the
\* start, 'completed' on adapter success, 'failed' on any error) is followed
\* by a recomputation of the parent status before the worker takes its next
\* step, on the failure path as well as on the success path.
C24_ParentRecomputedAfterChildWrite ==
  [][ \A w \in Workers :
        LET m == worker[w].msg
            m2 == worker'[w].msg
            r == m.request_id
        IN \* a child write of w leaves w at the parent read
           /\ (worker[w].pc = "idle" /\ worker'[w].pc # "idle"
                 /\ CanUpdate(requests, m2.request_id, m2.destination)) =>
                /\ requests'[m2.request_id].destinations[m2.destination].status
                     = "processing"
                /\ worker'[w].pc = "p_read"
           /\ (worker[w].pc = "adapter" /\ worker'[w] # worker[w]
                 /\ CanUpdate(requests, r, m.destination)) =>
                /\ requests'[r].destinations[m.destination].status
                     \in {"completed", "failed"}
                /\ worker'[w].pc = "t_read"
           \* the next steps of w are the read with the derivation and the
           \* write of the derived status
           /\ (worker[w].pc \in {"p_read", "t_read"} /\ worker'[w] # worker[w]) =>
                /\ worker'[w].pc = IF worker[w].pc = "p_read"
                                   THEN "p_write" ELSE "t_write"
                /\ worker'[w].overall = overall_status(Statuses(requests[r]))
           /\ (worker[w].pc \in {"p_write", "t_write"} /\ worker'[w] # worker[w]) =>
                /\ requests'[r].status = worker[w].overall
                /\ worker'[w].pc = IF worker[w].pc = "p_write"
                                   THEN "adapter" ELSE "idle"
    ]_vars

\* after a 'failed' child write the worker has read the row and derived the
\* parent status it is about to write
C24_Witness ==
  \E w \in Workers :
    /\ worker[w].pc = "t_write"
    /\ requests[worker[w].msg.request_id]
         .destinations[worker[w].msg.destination].status = "failed"
    /\ worker[w].overall = "failed"

\* ---------------------------------------------------------------------
\* main.py: the HTTP operations on upload requests. `response` holds what
\* the last call answered: the status code and the body.
\* ---------------------------------------------------------------------

\* ids uuid4 hands to the requests of this part
ApiIds == {"r1", "r2"}

\* account ids a client may send; "instagram:I1" is linked to nobody
ApiAccountIds == {"facebook:P1", "twitter:T9"}

RequestedIds == ApiAccountIds \cup {"instagram:I1"}

AccountIdLists == {<< >>} \cup SeqsUpTo(RequestedIds, 2)

S3Keys == {"k", Absent}

\* S3UploadHelper.get_public_url
get_public_url(s3_key) ==
  CASE s3_key = "k" -> VideoUrl
    [] OTHER -> Absent

\* what a call answered, with the call it answers
HttpResponse(op, caller, args, status_code, body) ==
  [op |-> op, caller |-> caller, args |-> args, status_code |-> status_code,
   body |-> body]

\* raise HTTPException(status_code, detail)
HTTPException(op, caller, args, status_code, detail) ==
  HttpResponse(op, caller, args, status_code, [detail |-> detail])

\* (mutant of valid_destinations: every requested id is kept)
valid_destinations_mut(table, user_id, account_ids) ==
  account_ids

\* post_to_social_media, lines 853-861: the ids with an account of the user
valid_destinations(table, user_id, account_ids) ==
  LET known(account_id) == get_account(table, user_id, account_id) # {}
  IN SelectSeq(account_ids, known)

InitApi ==
  /\ BaseInit
  /\ derive = IdleDerive
  /\ cred = [w \in Workers |-> IdleCred]
  /\ provider = IdleProvider
  /\ AdaptersIdle
  /\ \E K \in SUBSET ({"U"} \X ApiAccountIds) :
       accounts = [ k \in K \cup {<<"U2", "facebook:P1">>} |->
         account_item(k[1], k[2], platform_of(k[2]), Absent,
                      Expiry(CurrentTime + MetaWindow + 1)) ]

\* POST /api/social/post with every store and queue call answering
post_to_social_media(caller, s3_key, account_ids, request_id) ==
  LET destinations == valid_destinations(accounts, caller, account_ids)
      video_url == get_public_url(s3_key)
      args == [s3_key |-> s3_key, account_ids |-> account_ids]
  IN /\ IF ~Truthy(s3_key)
        THEN /\ response' = HTTPException("post", caller, args, 400, "s3_key is required")
             /\ UNCHANGED <<requests, queue, clock>>
        ELSE IF account_ids = << >>
        THEN /\ response' = HTTPException("post", caller, args, 400, "No accounts selected")
             /\ UNCHANGED <<requests, queue, clock>>
        ELSE IF destinations = << >>
        THEN /\ response' = HTTPException("post", caller, args, 404, "No valid accounts found")
             /\ UNCHANGED <<requests, queue, clock>>
        ELSE /\ request_id \notin DOMAIN requests
             /\ requests' = put_item(requests, request_id,
                              request_item(caller, video_url, Caption,
                                           destinations, clock))
             /\ queue' = queue (+) BagOfSeq(job_messages(request_id, caller,
                                              video_url, Caption, destinations))
             /\ response' = HttpResponse("post", caller, args, 200,
                              [request_id |-> request_id, status |-> "queued",
                               destinations |-> destinations,
                               video_url |-> video_url])
             /\ clock' = Tick
     /\ UNCHANGED <<worker, redelivered, resubmits, intake, schedVars>>
     /\ UNCHANGED extVars

\* response.get('Item') of get_item on the request table: no row, or one
get_upload_request(store, request_id) ==
  IF request_id \in DOMAIN store
  THEN { [request_id |-> request_id, item |-> store[request_id]] }
  ELSE {}

\* dest_data.get('created_at') of a child that is not there: None
NoTime == -1

\* get_request_logs, lines 190-200: the view of one child; a destination
\* that is no key of the map reads as the empty dict
destination_logs(item, destination) ==
  IF destination \in DOMAIN item.destinations
  THEN LET dest_data == item.destinations[destination]
       IN [ status |-> dest_data.status, logs |-> dest_data.logs,
            error |-> dest_data.error, result |-> dest_data.result,
            created_at |-> dest_data.created_at,
            updated_at |-> dest_data.updated_at ]
  ELSE [ status |-> Absent, logs |-> << >>, error |-> Absent,
         result |-> Absent, created_at |-> NoTime, updated_at |-> NoTime ]

\* get_request_logs
get_request_logs(store, request_id, destination) ==
  IF get_upload_request(store, request_id) = {}
  THEN [error |-> "Request not found", request_id |-> request_id]
  ELSE IF Truthy(destination)
  THEN [ request_id |-> request_id, destination |-> destination,
         view |-> destination_logs(store[request_id], destination),
         error |-> destination_logs(store[request_id], destination).error ]
  ELSE [ request_id |-> request_id,
         overall_status |-> store[request_id].status,
         destinations |->
           [ d \in DOMAIN store[request_id].destinations |->
               destination_logs(store[request_id], d) ],
         created_at |-> store[request_id].created_at,
         video_url |-> store[request_id].video_url,
         caption |-> store[request_id].caption ]

\* 'error' in logs_data and logs_data['error'] == 'Request not found'
logs_not_found(logs_data) ==
  /\ "error" \in DOMAIN logs_data
  /\ logs_data.error = "Request not found"

\* GET /api/social/uploads/{request_id}
get_upload_request_detail(caller, request_id) ==
  /\ LET upload_request == get_upload_request(requests, request_id)
         args == [request_id |-> request_id]
     IN response' =
          IF upload_request = {}
          THEN HTTPException("detail", caller, args, 404, "Upload request not found")
          ELSE IF requests[request_id].user_id # caller
          THEN HTTPException("detail", caller, args, 403, "Access denied")
          ELSE HttpResponse("detail", caller, args, 200,
                            CHOOSE x \in upload_request : TRUE)
  /\ UNCHANGED <<requests, queue, worker, clock, redelivered, resubmits,
                 intake, schedVars>>
  /\ UNCHANGED extVars

\* (mutant of logs_response: the owner is not compared with the caller)
logs_response_mut(store, caller, request_id, destination) ==
  IF get_upload_request(store, request_id) = {}
  THEN HTTPException("logs", caller,
                     [request_id |-> request_id, destination |-> destination],
                     404, "Upload request not found")
  ELSE IF logs_not_found(get_request_logs(store, request_id, destination))
  THEN HTTPException("logs", caller,
                     [request_id |-> request_id, destination |-> destination],
                     404, "Upload request not found")
  ELSE HttpResponse("logs", caller,
                    [request_id |-> request_id, destination |-> destination], 200,
                    get_request_logs(store, request_id, destination))

\* get_upload_request_logs, lines 999-1016
logs_response(store, caller, request_id, destination) ==
  IF get_upload_request(store, request_id) = {}
  THEN HTTPException("logs", caller,
                     [request_id |-> request_id, destination |-> destination],
                     404, "Upload request not found")
  ELSE IF store[request_id].user_id # caller
  THEN HTTPException("logs", caller,
                     [request_id |-> request_id, destination |-> destination],
                     403, "Access denied")
  ELSE IF logs_not_found(get_request_logs(store, request_id, destination))
  THEN HTTPException("logs", caller,
                     [request_id |-> request_id, destination |-> destination],
                     404, "Upload request not found")
  ELSE HttpResponse("logs", caller,
                    [request_id |-> request_id, destination |-> destination], 200,
                    get_request_logs(store, request_id, destination))

\* GET /api/social/uploads/{request_id}/logs
get_upload_request_logs(caller, request_id, destination) ==
  /\ response' = logs_response(requests, caller, request_id, destination)
  /\ UNCHANGED <<requests, queue, worker, clock, redelivered, resubmits,
                 intake, schedVars>>
  /\ UNCHANGED extVars

\* the last_key query parameter: None, the json.dumps of a LastEvaluatedKey,
\* a text that is not JSON, or JSON that is not a key (a number)
NoCursor == [kind |-> "none", request_id |-> "", user_id |-> ""]

Cursor(request_id, user_id) ==
  [kind |-> "key", request_id |-> request_id, user_id |-> user_id]

LastKeys(store) ==
  {NoCursor}
  \cup { Cursor(r, store[r].user_id) : r \in DOMAIN store }
  \cup { [kind |-> "text", request_id |-> "", user_id |-> ""],
         [kind |-> "number", request_id |-> "", user_id |-> ""] }

\* list_user_uploads, lines 911-916: json.loads of the parameter; a text
\* that does not parse is logged and leaves last_evaluated_key None
parse_last_key(last_key) ==
  IF last_key.kind = "text" THEN NoCursor ELSE last_key

Limits == {1, 2}

IdRank(request_id) == IF request_id = "r1" THEN 1 ELSE 2

\* ScanIndexForward=False on user_id-created_at-index: newest first
Before(store, a, b) ==
  \/ store[a].created_at > store[b].created_at
  \/ store[a].created_at = store[b].created_at /\ IdRank(a) < IdRank(b)

\* the ids of the user's rows in index order, after the start key if any
query_requests(store, user_id, last_evaluated_key) ==
  LET mine == { r \in DOMAIN store : store[r].user_id = user_id }
      rest == IF last_evaluated_key.kind = "key"
              THEN { r \in mine : Before(store, last_evaluated_key.request_id, r) }
              ELSE mine
  IN CHOOSE s \in [1..Cardinality(rest) -> rest] :
       /\ \A i, j \in DOMAIN s : i < j => Before(store, s[i], s[j])
       /\ Range(s) = rest

\* the first n elements of s
Take(s, n) == SubSeq(s, 1, Min(n, Len(s)))

\* list_user_uploads with list_upload_requests: a start key the store does
\* not accept (not a key of the index, or of another partition) raises in
\* the query and the handler answers 500
list_response(store, caller, limit, last_key) ==
  LET last_evaluated_key == parse_last_key(last_key)
      bad == \/ last_evaluated_key.kind = "number"
             \/ last_evaluated_key.kind = "key"
                  /\ last_evaluated_key.user_id # caller
  IN IF bad
     THEN HTTPException("list", caller, [limit |-> limit, last_key |-> last_key],
                        500, "Invalid ExclusiveStartKey")
     ELSE LET page == Take(query_requests(store, caller, last_evaluated_key),
                           limit)
          IN HttpResponse("list", caller, [limit |-> limit, last_key |-> last_key], 200,
               [ requests |-> [ i \in DOMAIN page |->
                                  [request_id |-> page[i], item |-> store[page[i]]] ],
                 last_evaluated_key |->
                   IF Len(page) = limit
                   THEN Cursor(page[Len(page)], caller)
                   ELSE NoCursor ])

\* GET /api/social/uploads
list_user_uploads(caller, limit, last_key) ==
  /\ response' = list_response(requests, caller, limit, last_key)
  /\ UNCHANGED <<requests, queue, worker, clock, redelivered, resubmits,
                 intake, schedVars>>
  /\ UNCHANGED extVars

NextPost ==
  \E caller \in Users, s3_key \in S3Keys, account_ids \in AccountIdLists,
     request_id \in ApiIds :
    post_to_social_media(caller, s3_key, account_ids, request_id)

SpecPost == InitApi /\ [][NextPost]_vars

\* how far the worker has taken the first child of a stored request
ChildStages == {"queued", "processing", "completed", "failed"}

\* the row of a request whose first child the worker has taken to `stage`
stored_request(user_id, destinations, stage, t) ==
  LET r == "r1"
      d == destinations[1]
      store0 == put_item(<< >>, r, request_item(user_id, VideoUrl, Caption,
                                                destinations, t))
      out == IF stage = "completed" THEN [ok |-> TRUE, result |-> "post_id",
                                           error |-> Absent]
             ELSE [ok |-> FALSE, result |-> Absent, error |-> "upload error"]
      store1 == update_request_status(store0, r, d, "processing", StartLogs,
                                      Absent, Absent, t, TRUE, TRUE)
      logs == StartLogs \o AdapterLogs(out) \o FinishLogs(out)
      store2 == update_request_status(store1, r, d, stage, logs, out.error,
                                      out.result, t, TRUE, TRUE)
  IN CASE stage = "queued" -> store0[r]
       [] stage = "processing" -> store1[r]
       [] OTHER -> store2[r]

\* the request table the read operations are applied to: r1 with two
\* children, and possibly r2 with one, each owned by either user
InitRead ==
  /\ \E o1 \in Users, o2 \in Users \cup {Absent}, stage \in ChildStages,
        t2 \in {0, 1} :
       /\ requests =
            [ r \in (IF o2 = Absent THEN {"r1"} ELSE {"r1", "r2"}) |->
                IF r = "r1"
                THEN stored_request(o1, <<"facebook:P1", "twitter:T9">>, stage, 0)
                ELSE stored_request(o2, <<"twitter:T9">>, "queued", t2) ]
       /\ queue = SetToBag(
            { JobMessage("r1", o1, "twitter:T9", VideoUrl, Caption) }
            \cup (IF stage = "queued"
                  THEN { JobMessage("r1", o1, "facebook:P1", VideoUrl, Caption) }
                  ELSE {})
            \cup (IF o2 = Absent THEN {}
                  ELSE { JobMessage("r2", o2, "twitter:T9", VideoUrl, Caption) }))
  /\ accounts = [ k \in Users \X ApiAccountIds |->
                    account_item(k[1], k[2], platform_of(k[2]), Absent,
                                 Expiry(CurrentTime + MetaWindow + 1)) ]
  /\ provider = IdleProvider
  /\ cred = [w \in Workers |-> IdleCred]
  /\ worker = [w \in Workers |-> IdleWorker]
  /\ clock = 1
  /\ redelivered = 0
  /\ resubmits = 0
  /\ response = Response("", TRUE, "")
  /\ intake = IdleIntake
  /\ scheduled_posts = << >>
  /\ sched = [e \in Execs |-> IdleExec]
  /\ promoted = [p \in PostIds |-> [claims |-> 0, creates |-> 0]]
  /\ derive = IdleDerive
  /\ AdaptersIdle

NextRead ==
  \/ \E caller \in Users, request_id \in ApiIds :
       get_upload_request_detail(caller, request_id)
  \/ \E caller \in Users, request_id \in ApiIds,
        destination \in RequestedIds \cup {Absent} :
       get_upload_request_logs(caller, request_id, destination)
  \/ \E caller \in Users, limit \in Limits, last_key \in LastKeys(requests) :
       list_user_uploads(caller, limit, last_key)

SpecRead == InitRead /\ [][NextRead]_vars

\* C25: POST /post keeps exactly those requested account ids for which an
\* account exists for the caller and drops the others; when the kept list
\* is empty (none requested, or none known) the call fails with an error,
\* writes no parent row and enqueues no job; otherwise the upload request's
\* destinations are exactly the kept ids.
C25_IntakePrecondition ==
  [][ response' # response =>
        LET caller == response'.caller
            s3_key == response'.args.s3_key
            account_ids == response'.args.account_ids
            kept == { a \in Range(account_ids) :
                        <<caller, a>> \in DOMAIN accounts }
        IN /\ response'.op = "post"
           /\ IF kept = {} \/ s3_key = Absent
              THEN /\ response'.status_code \in {400, 404}
                   /\ requests' = requests
                   /\ queue' = queue
              ELSE LET request_id == response'.body.request_id
                   IN /\ response'.status_code = 200
                      /\ Range(response'.body.destinations) = kept
                      /\ DOMAIN requests' = DOMAIN requests \cup {request_id}
                      /\ request_id \notin DOMAIN requests
                      /\ requests'[request_id].user_id = caller
                      /\ DOMAIN requests'[request_id].destinations = kept
                      /\ { m.destination :
                             m \in { x \in BagToSet(queue') :
                                       x.request_id = request_id } } = kept
                      /\ \A r \in DOMAIN requests : requests'[r] = requests[r]
    ]_vars

\* a call that asked for a linked and an unlinked account was answered with
\* a request for the linked one only
C25_Witness ==
  /\ response.op = "post"
  /\ response.status_code = 200
  /\ response.args.account_ids = <<"instagram:I1", "facebook:P1">>
  /\ response.body.destinations = <<"facebook:P1">>
  /\ DOMAIN requests[response.body.request_id].destinations = {"facebook:P1"}
  /\ <<response.caller, "instagram:I1">> \notin DOMAIN accounts

\* C26: the detail and logs operations return a request's data only when
\* the request's stored user_id equals the caller's; for another user's
\* request they answer 403 and disclose nothing, for an unknown request_id
\* 404; the list operation returns only requests whose user_id is the
\* caller's.
C26_ReadAuthorization ==
  /\ response.op \in {"detail", "logs"} =>
       LET r == response.args.request_id
       IN /\ r \notin DOMAIN requests =>
               response.status_code = 404
               /\ response.body = [detail |-> "Upload request not found"]
          /\ (r \in DOMAIN requests /\ requests[r].user_id # response.caller) =>
               response.status_code = 403
               /\ response.body = [detail |-> "Access denied"]
          /\ response.status_code = 200 =>
               r \in DOMAIN requests /\ requests[r].user_id = response.caller
  /\ response.op = "list" =>
       \/ response.status_code = 500
       \/ /\ response.status_code = 200
          /\ \A i \in DOMAIN response.body.requests :
               response.body.requests[i].item.user_id = response.caller
          /\ response.body.last_evaluated_key.kind = "key" =>
               response.body.last_evaluated_key.user_id = response.caller

\* the logs of another user's request, whose child has failed with an error
\* message, were asked for and refused
C26_Witness ==
  /\ response.op = "logs"
  /\ response.status_code = 403
  /\ response.args = [request_id |-> "r1", destination |-> "facebook:P1"]
  /\ requests["r1"].destinations["facebook:P1"].status = "failed"
  /\ requests["r1"].user_id # response.caller
  /\ "r2" \in DOMAIN requests /\ requests["r2"].user_id = response.caller

\* C27: a logs read for an existing request owned by the caller, with a
\* destination parameter that is not a key of the request's destinations
\* map, fails with 404 instead of returning a logs view.
C27_UnknownDestinationNotFound ==
  ( /\ response.op = "logs"
    /\ response.args.request_id \in DOMAIN requests
    /\ requests[response.args.request_id].user_id = response.caller
    /\ Truthy(response.args.destination)
    /\ response.args.destination \notin
         DOMAIN requests[response.args.request_id].destinations )
  => response.status_code = 404

\* C28: GET /uploads with a last_key value that does not parse as a
\* pagination cursor fails with HTTP 400 and returns no list of requests.
C28_InvalidCursorIsInputError ==
  ( /\ response.op = "list"
    /\ response.args.last_key.kind \in {"text", "number"} )
  => /\ response.status_code = 400
     /\ "requests" \notin DOMAIN response.body

\* ---------------------------------------------------------------------
\* social_accounts.py: linking an account (create_account) and reading it
\* back by its composite key
\* ---------------------------------------------------------------------

CreatePlatforms == {"facebook", "twitter"}

PlatformUserIds == {"P1", "T9"}

AccessTokens == {"at0", "at1"}

\* account_id = f"{platform}:{platform_user_id}"
format_account_id(platform, platform_user_id) ==
  CASE platform = "facebook" /\ platform_user_id = "P1" -> "facebook:P1"
    [] platform = "facebook" /\ platform_user_id = "T9" -> "facebook:T9"
    [] platform = "twitter" /\ platform_user_id = "P1" -> "twitter:P1"
    [] platform = "twitter" /\ platform_user_id = "T9" -> "twitter:T9"

\* (mutant of put_account: a row that is there is kept)
put_account_mut(table, item) ==
  LET k == account_key(item.user_id, item.account_id)
  IN [ x \in DOMAIN table \cup {k} |->
         IF x \in DOMAIN table THEN table[x] ELSE item ]

\* table.put_item(Item=item): the row of the item's key is replaced
put_account(table, item) ==
  LET k == account_key(item.user_id, item.account_id)
  IN [ x \in DOMAIN table \cup {k} |-> IF x = k THEN item ELSE table[x] ]

InitRegistry ==
  /\ BaseInit
  /\ derive = IdleDerive
  /\ cred = [w \in Workers |-> IdleCred]
  /\ provider = IdleProvider
  /\ AdaptersIdle
  /\ accounts = << >>

\* SocialAccountManager.create_account
create_account(user_id, platform, platform_user_id, access_token) ==
  LET account_id == format_account_id(platform, platform_user_id)
      item == [ account_item(user_id, account_id, platform, Absent, NullExpiry)
                  EXCEPT !.platform_user_id = platform_user_id,
                         !.access_token = access_token ]
  IN /\ accounts' = put_account(accounts, item)
     /\ listing' = [op |-> "create", user_id |-> user_id, arg |-> account_id,
                    items |-> {item}]
     /\ clock' = Tick
     /\ UNCHANGED <<requests, queue, worker, redelivered, resubmits, response,
                    intake, schedVars, derive, cred, provider, adapterVars>>

\* SocialAccountManager.get_account for an id of the registry
RegistryGet(user_id, account_id) ==
  /\ listing' = [op |-> "get", user_id |-> user_id, arg |-> account_id,
                 items |-> get_account(accounts, user_id, account_id)]
  /\ UNCHANGED <<coreVars, schedVars, derive, credVars, adapterVars>>

NextRegistry ==
  \/ \E platform \in CreatePlatforms, platform_user_id \in PlatformUserIds,
        access_token \in AccessTokens :
       create_account(UserId, platform, platform_user_id, access_token)
  \/ \E user_id \in Users, platform \in CreatePlatforms,
        platform_user_id \in PlatformUserIds :
       RegistryGet(user_id, format_account_id(platform, platform_user_id))

SpecRegistry == InitRegistry /\ [][NextRegistry]_vars

\* C29: create_account(U, P, I, ...) stores the account under account_id
\* 'P:I' and get_account(U, 'P:I') then returns it; creating again with the
\* same (U, P, I) overwrites that row, so the registry holds exactly one
\* account for (U, 'P:I') carrying the values of the last create.
C29_AccountKeyRoundTrip ==
  [][ /\ (listing'.op = "create"
            /\ <<accounts', listing'>> # <<accounts, listing>>) =>
           LET item == CHOOSE x \in listing'.items : TRUE
               k == <<listing'.user_id, listing'.arg>>
           IN /\ <<item.platform, item.platform_user_id, listing'.arg>> \in
                   { <<"facebook", "P1", "facebook:P1">>,
                     <<"facebook", "T9", "facebook:T9">>,
                     <<"twitter", "P1", "twitter:P1">>,
                     <<"twitter", "T9", "twitter:T9">> }
              /\ item.account_id = listing'.arg
              /\ item.user_id = listing'.user_id
              /\ DOMAIN accounts' = DOMAIN accounts \cup {k}
              /\ accounts'[k] = item
              /\ \A x \in DOMAIN accounts \ {k} : accounts'[x] = accounts[x]
              /\ get_account(accounts', k[1], k[2]) = {item}
      /\ (listing'.op = "get" /\ listing' # listing) =>
           LET k == <<listing'.user_id, listing'.arg>>
           IN listing'.items = IF k \in DOMAIN accounts
                               THEN {accounts[k]} ELSE {}
    ]_vars

\* the same account was linked twice and read back: one row, holding the
\* token of the second create
C29_Witness ==
  /\ clock = 2
  /\ DOMAIN accounts = {<<"U", "twitter:T9">>}
  /\ accounts[<<"U", "twitter:T9">>].access_token = "at1"
  /\ listing.op = "get"
  /\ listing.items = {accounts[<<"U", "twitter:T9">>]}

\* ---------------------------------------------------------------------
\* posting_worker.py: one invocation of handler on a batch of records
\* ---------------------------------------------------------------------

\* longest batch the queue hands to one invocation
MaxBatch == 3

\* a record body that json.loads rejects (sent by something other than
\* create_upload_request)
Malformed == [body |-> "<not json>"]

NoException == "<none>"

\* str(e) of the json.JSONDecodeError
DecodeError == "Expecting value"

\* the records of one event: messages of the queue, in any order
Batches == { b \in SeqsUpTo(Messages, MaxBatch) :
               \A m \in Range(b) : BagOfSeq(b)[m] <= CopiesIn(m, queue) }

\* the six platforms the handler routes to
KnownPlatforms ==
  {"facebook", "instagram", "twitter", "youtube", "linkedin", "tiktok"}

\* destinations with a tag the handler does not know, and with no ':'
UnknownTagDest == "myspace:M1"
NoColonDest == "facebook"

\* platform, _ = destination.split(':', 1): the part before the first ':';
\* the unpacking raises ValueError when there is no ':'
split_destination(destination) ==
  IF destination = NoColonDest THEN [raises |-> TRUE, platform |-> ""]
  ELSE IF destination = UnknownTagDest
  THEN [raises |-> FALSE, platform |-> "myspace"]
  ELSE [raises |-> FALSE, platform |-> platform_of(destination)]

\* (mutant of dispatch: a tag that is not known goes to the last routine)
dispatch_mut(destination, out) ==
  LET split == split_destination(destination)
  IN IF split.raises
     THEN [invoked |-> << >>, exc |-> "not enough values to unpack"]
     ELSE [invoked |-> << IF split.platform \in KnownPlatforms
                          THEN split.platform ELSE "tiktok" >>,
           exc |-> IF out.ok THEN NoException ELSE out.error]

\* handler, lines 792-823: the if/elif chain over platform.  invoked is the
\* sequence of process_<platform>_post routines called, exc what is raised.
dispatch(destination, out) ==
  LET split == split_destination(destination)
  IN IF split.raises
     THEN [invoked |-> << >>, exc |-> "not enough values to unpack"]
     ELSE IF split.platform \in KnownPlatforms
     THEN [invoked |-> << split.platform >>,
           exc |-> IF out.ok THEN NoException ELSE out.error]
     ELSE [invoked |-> << >>, exc |-> "Unknown platform"]

\* handler, lines 769-837: the try block of one record.  exc is the
\* exception that leaves it.
try_record(store, names, body, out, startOk, endOk, t) ==
  IF body = Malformed
  THEN [exc |-> DecodeError, names |-> names, store |-> store, status |-> "",
        invoked |-> << >>]
  ELSE LET bound == [bound |-> TRUE, request_id |-> body.request_id,
                     destination |-> body.destination, logs |-> StartLogs]
           started == update_request_status(store, body.request_id,
                        body.destination, "processing", StartLogs, Absent,
                        Absent, t, startOk, TRUE)
           routed == dispatch(body.destination, out)
           logs == StartLogs \o (IF routed.invoked = << >> THEN << >>
                                 ELSE AdapterLogs(out))
       IN IF routed.exc = NoException
          THEN [exc |-> NoException, invoked |-> routed.invoked,
                names |-> [bound EXCEPT !.logs = logs \o FinishLogs(out)],
                store |-> update_request_status(started, body.request_id,
                            body.destination, "completed",
                            logs \o FinishLogs(out), Absent, out.result, t,
                            endOk, TRUE),
                status |-> "completed"]
          ELSE [exc |-> routed.exc, invoked |-> routed.invoked,
                names |-> [bound EXCEPT !.logs = logs],
                store |-> started, status |-> ""]

\* (mutant of except_record: the exception is raised again after the write)
except_record_mut(tried, endOk, t) ==
  IF tried.exc = NoException
  THEN [escaped |-> FALSE, names |-> tried.names, store |-> tried.store,
        status |-> tried.status]
  ELSE IF ~tried.names.bound
  THEN [escaped |-> TRUE, names |-> tried.names, store |-> tried.store,
        status |-> ""]
  ELSE LET logs == tried.names.logs \o
                     FinishLogs([ok |-> FALSE, result |-> Absent,
                                 error |-> tried.exc])
       IN [escaped |-> TRUE,
           names |-> [tried.names EXCEPT !.logs = logs],
           store |-> update_request_status(tried.store,
                       tried.names.request_id, tried.names.destination,
                       "failed", logs, tried.exc, Absent, t, endOk, TRUE),
           status |-> "failed"]

\* handler, lines 839-856: the except clause of one record.  With no name
\* bound yet, detailed_log.log raises NameError inside the inner try and the
\* bare except swallows it; otherwise 'failed' is written for the names that
\* are bound (update_request_status swallows its own errors).
except_record(tried, endOk, t) ==
  IF tried.exc = NoException
  THEN [escaped |-> FALSE, names |-> tried.names, store |-> tried.store,
        status |-> tried.status]
  ELSE IF ~tried.names.bound
  THEN [escaped |-> FALSE, names |-> tried.names, store |-> tried.store,
        status |-> ""]
  ELSE LET logs == tried.names.logs \o
                     FinishLogs([ok |-> FALSE, result |-> Absent,
                                 error |-> tried.exc])
       IN [escaped |-> FALSE,
           names |-> [tried.names EXCEPT !.logs = logs],
           store |-> update_request_status(tried.store,
                       tried.names.request_id, tried.names.destination,
                       "failed", logs, tried.exc, Absent, t, endOk, TRUE),
           status |-> "failed"]

\* a body that is not JSON arrives in the queue
ForeignSend ==
  /\ batch.pc = "idle"
  /\ ~BagIn(Malformed, queue)
  /\ queue' = queue (+) SetToBag({Malformed})
  /\ UNCHANGED <<requests, worker, clock, redelivered, resubmits, response,
                 intake, schedVars, extVars>>

\* the queue invokes handler with a batch; the records stay in the queue,
\* invisible, until the invocation ends
HandlerInvoke(records) ==
  /\ batch.pc = "idle"
  /\ batch' = [batch EXCEPT !.pc = "loop", !.Records = records]
  /\ UNCHANGED <<coreVars, schedVars, derive, credVars, listing, ig, tw, tk, li, resub>>

\* handler, lines 768-856: one iteration of the loop over event['Records']
HandlerRecord(out, startOk, endOk) ==
  /\ batch.pc = "loop"
  /\ batch.i <= Len(batch.Records)
  /\ LET body == batch.Records[batch.i]
         tried == try_record(requests, batch.names, body, out, startOk, endOk,
                             clock)
         after == except_record(tried, endOk, clock)
     IN /\ requests' = after.store
        /\ batch' = [batch EXCEPT
                       !.pc = IF after.escaped THEN "raised" ELSE "loop",
                       !.escaped = after.escaped,
                       !.i = @ + 1,
                       !.names = after.names,
                       !.done = Append(@, [body |-> body, exc |-> tried.exc,
                                           status |-> after.status,
                                           invoked |-> tried.invoked])]
  /\ clock' = Tick
  /\ UNCHANGED <<queue, worker, redelivered, resubmits, response, intake,
                 schedVars, derive, credVars, listing, ig, tw, tk, li, resub>>

\* handler, lines 858-861: the return after the loop; the queue deletes the
\* records of an invocation that returned
HandlerReturn ==
  /\ batch.pc = "loop"
  /\ batch.i > Len(batch.Records)
  /\ batch' = [batch EXCEPT !.pc = "returned", !.statusCode = 200,
                            !.acknowledged = TRUE]
  /\ queue' = queue (-) BagOfSeq(batch.Records)
  /\ UNCHANGED <<requests, worker, clock, redelivered, resubmits, response,
                 intake, schedVars, derive, credVars, listing, ig, tw, tk, li, resub>>

NextBatch ==
  \/ \E r \in SubmitIds, D \in DestLists : Submit(r, D)
  \/ ForeignSend
  \/ \E records \in Batches : HandlerInvoke(records)
  \/ \E out \in AdapterOutcomes, startOk \in BOOLEAN, endOk \in BOOLEAN :
       HandlerRecord(out, startOk, endOk)
  \/ HandlerReturn

SpecBatch == Init /\ [][NextBatch]_vars

\* C30: for every batch of records the handler returns normally with
\* statusCode 200 whatever errors the records raise, so the queue deletes
\* the batch and redelivers none of it, and every record of the batch is
\* processed even when an earlier record of the batch failed.
C30_ErrorsAcknowledged ==
  /\ batch.pc \in {"idle", "loop", "returned"}
  /\ ~batch.escaped
  /\ Len(batch.done) = batch.i - 1
  /\ \A k \in 1..Len(batch.done) :
       /\ batch.done[k].body = batch.Records[k]
       /\ batch.Records[k] # Malformed =>
            /\ batch.done[k].status \in {"completed", "failed"}
            /\ batch.done[k].status = "completed" <=>
                 batch.done[k].exc = NoException
  /\ batch.pc = "loop" => batch.i <= Len(batch.Records) + 1
  /\ batch.pc = "returned" =>
       /\ batch.statusCode = 200
       /\ batch.acknowledged
       /\ Len(batch.done) = Len(batch.Records)

\* the first record's adapter raised, the second record was still posted,
\* and the handler returned 200
C30_Witness ==
  /\ batch.pc = "returned"
  /\ batch.statusCode = 200
  /\ Len(batch.Records) = 2
  /\ batch.done[1].status = "failed"
  /\ batch.done[2].status = "completed"
  /\ "r1" \in DOMAIN requests
  /\ requests["r1"].destinations[batch.Records[1].destination].status = "failed"
  /\ requests["r1"].destinations[batch.Records[2].destination].status = "completed"

\* ---------------------------------------------------------------------
\* auth.py: verify_token_claims
\* ---------------------------------------------------------------------

\* latest time, and latest exp, of the claims checked
MaxExp == 4

\* claims.get("exp", 0) reads an exp of the dict, or 0 when there is none
NoExp == [present |-> FALSE, value |-> 0]

Exp(value) == [present |-> TRUE, value |-> value]

exp_or_default(claims) == IF claims.exp.present THEN claims.exp.value ELSE 0

\* the claims of a decoded token: jose has checked that an exp is an integer
TokenClaims ==
  [ sub : Users, token_use : {"access", "id", Absent},
    exp : {NoExp} \cup { Exp(v) : v \in 0..MaxExp } ]

\* (mutant of verify_token_claims: a token is still good at its exp)
verify_token_claims_mut(claims, now) ==
  LET args == [claims |-> claims, now |-> now]
  IN IF claims.token_use # "access"
     THEN HTTPException("verify_token_claims", claims.sub, args, 401,
            <<"Invalid token type: ", claims.token_use,
              ". Expected 'access' token.">>)
     ELSE IF now > exp_or_default(claims)
     THEN HTTPException("verify_token_claims", claims.sub, args, 401,
            <<"Token has expired">>)
     ELSE HttpResponse("verify_token_claims", claims.sub, args, 200, claims)

\* verify_token_claims at time.time() = now: what it raises or returns.  The
\* detail of an exception is the sequence of the parts of its f-string.
verify_token_claims(claims, now) ==
  LET args == [claims |-> claims, now |-> now]
  IN IF claims.token_use # "access"
     THEN HTTPException("verify_token_claims", claims.sub, args, 401,
            <<"Invalid token type: ", claims.token_use,
              ". Expected 'access' token.">>)
     ELSE IF now >= exp_or_default(claims)
     THEN HTTPException("verify_token_claims", claims.sub, args, 401,
            <<"Token has expired">>)
     ELSE HttpResponse("verify_token_claims", claims.sub, args, 200, claims)

VerifyTokenClaims(claims, now) ==
  /\ response' = verify_token_claims(claims, now)
  /\ UNCHANGED <<requests, queue, worker, clock, redelivered, resubmits,
                 intake, schedVars, extVars>>

NextAuth ==
  \E claims \in TokenClaims, now \in 1..MaxExp : VerifyTokenClaims(claims, now)

SpecAuth == Init /\ [][NextAuth]_vars

C32_ChunkUpload ==
  LET n == Len(ig.sent)
      accepted(i) == ig.statuses[i] \in {200, 201, 206}
      size(i) == Min(ChunkSize, ig.file_size - ig.sent[i])
  IN /\ Len(ig.statuses) = n
     /\ n > 0 => ig.sent[1] = 0
     /\ \A i \in 1..n :
          /\ size(i) >= 1 /\ size(i) <= ChunkSize
          /\ i < n => /\ accepted(i)
                      /\ ig.sent[i + 1] = ig.sent[i] + size(i)
                      /\ ig.sent[i + 1] > ig.sent[i]
     /\ ig.offset = IF n = 0 THEN 0
                    ELSE IF accepted(n) THEN ig.sent[n] + size(n)
                    ELSE ig.sent[n]
     /\ (n > 0 /\ ~accepted(n)) =>
          /\ ig.pc = "raised"
          /\ ig.attempt = 0 /\ ig.last = "" /\ ig.publishes = 0
          /\ ig.result = NoResult
     /\ (ig.pc \in {"poll", "publish", "returned"}
           \/ ig.attempt > 0 \/ ig.last # "" \/ ig.publishes > 0) =>
          /\ ig.offset = ig.file_size
          /\ \A i \in 1..n : accepted(i)
     /\ ig.pc = "upload" => ig.offset < ig.file_size

\* two chunks were accepted with 206 and 201, the third was refused with
\* 204: the run raised at offset 10 MiB with nothing polled or published
C32_Witness ==
  /\ ig.file_size = 2 * ChunkSize + 1
  /\ ig.sent = <<0, ChunkSize, 2 * ChunkSize>>
  /\ ig.statuses = <<206, 201, 204>>
  /\ ig.pc = "raised"
  /\ ig.offset = 2 * ChunkSize

\* C33: post_reel issues at most 5 container status polls; media_publish is
\* called at most once per invocation and only directly after a poll that
\* returned FINISHED, with creation_id equal to the container id from init;
\* a poll returning ERROR raises without any publish; a failed publish
\* raises and the result is never 'published'.
C33_PollAndPublish ==
  [][ /\ ig'.polls <= MaxRetries
      /\ ig'.publishes <= 1
      /\ ig'.polls > ig.polls =>
           /\ ig'.polls = ig.polls + 1
           /\ ig.publishes = 0 /\ ig'.publishes = 0
           /\ ig'.last = "ERROR" => ig'.pc = "raised" /\ ig'.result = NoResult
      /\ ig'.publishes > ig.publishes =>
           /\ ig.last = "FINISHED"
           /\ ig.pc = "publish"
           /\ ig'.polls = ig.polls
           /\ ig'.creation_id = ig.container_id
           /\ ig.container_id = "C1"
           /\ ig'.pc = IF ig'.publish_ok THEN "returned" ELSE "raised"
           /\ ig'.result = IF ig'.publish_ok
                           THEN [status |-> "published", id |-> "M1"]
                           ELSE NoResult
      /\ ig.pc = "publish" =>
           (ig' = ig \/ ig'.publishes = ig.publishes + 1)
      /\ ig.last = "ERROR" => ig' = ig
      /\ ig'.result.status = "published" =>
           /\ ig'.publishes = 1
           /\ ig'.publish_ok
           /\ ig'.pc = "returned"
           /\ ig'.last = "FINISHED"
      /\ (ig'.pc = "raised" /\ ig'.publishes = 1) =>
           ig'.result.status # "published"
    ]_vars

\* the fifth poll answered FINISHED and the publish that followed failed:
\* the run raised with nothing published
C33_Witness ==
  /\ ig.polls = MaxRetries
  /\ ig.last = "FINISHED"
  /\ ig.publishes = 1
  /\ ig.creation_id = "C1"
  /\ ~ig.publish_ok
  /\ ig.pc = "raised"
  /\ ig.result = NoResult

\* ---------------------------------------------------------------------
\* The LinkedIn adapter: post_video call by call (registerUpload, download,
\* PUT of the bytes, asset polls, ugcPost).  `li.calls` is the sequence of
\* the requests sent, other than the polls.
\* ---------------------------------------------------------------------

\* max_wait_seconds of _wait_for_video_processing
MaxWaitSeconds == 120

\* time.sleep(5) between two polls
PollSleep == 5

\* how long a poll takes to answer, in seconds (timeout=30)
PollDurations == {0, 10, 30}

\* what a poll answers: the status of the asset, or an HTTP error
AssetAnswers ==
  {"AVAILABLE", "ALLOWED", "FAILED", "PROCESSING_FAILED", "PROCESSING",
   "HTTP 500"}

\* a request that raise_for_status accepts, or that raises
li_call(g, name, ok, next) ==
  IF ok THEN [g EXCEPT !.calls = Append(@, name), !.pc = next]
  ELSE [g EXCEPT !.calls = Append(@, name), !.pc = "raised",
                 !.error = "LinkedIn API request failed"]

\* (mutant of wait_next: a failed asset is waited for like a processing one)
wait_next_mut(g, answer, d) ==
  LET polled == [g EXCEPT !.issued = g.elapsed, !.elapsed = @ + d,
                          !.last = answer]
  IN IF answer = "HTTP 500"
     THEN [polled EXCEPT !.pc = "raised",
                         !.error = "LinkedIn API request failed"]
     ELSE IF answer \in {"AVAILABLE", "ALLOWED", "FAILED", "PROCESSING_FAILED"}
     THEN [polled EXCEPT !.pc = "create"]
     ELSE [polled EXCEPT !.elapsed = @ + PollSleep]

\* _wait_for_video_processing, lines 156-171: one pass of the loop, entered
\* with elapsed < max_wait_seconds; the poll takes d seconds
wait_next(g, answer, d) ==
  LET polled == [g EXCEPT !.issued = g.elapsed, !.elapsed = @ + d,
                          !.last = answer]
  IN IF answer = "HTTP 500"
     THEN [polled EXCEPT !.pc = "raised",
                         !.error = "LinkedIn API request failed"]
     ELSE IF answer \in {"AVAILABLE", "ALLOWED"}
     THEN [polled EXCEPT !.pc = "create"]
     ELSE IF answer \in {"FAILED", "PROCESSING_FAILED"}
     THEN [polled EXCEPT !.pc = "raised",
                         !.error = "Video processing failed with status"]
     ELSE [polled EXCEPT !.elapsed = @ + PollSleep]

\* post_video, lines 46-49: _register_video_upload
LiRegister(ok) ==
  /\ li.pc = "idle"
  /\ li' = li_call(li, "registerUpload", ok, "download")
  /\ UNCHANGED <<coreVars, schedVars, derive, credVars, listing, ig, tw, tk, batch, resub>>

\* post_video, lines 60-64: the video is read from its URL
LiDownload(ok) ==
  /\ li.pc = "download"
  /\ li' = li_call(li, "download", ok, "upload")
  /\ UNCHANGED <<coreVars, schedVars, derive, credVars, listing, ig, tw, tk, batch, resub>>

\* post_video, lines 66-68: _upload_video; the wait starts after it
LiUpload(ok) ==
  /\ li.pc = "upload"
  /\ li' = li_call(li, "PUT", ok, "wait")
  /\ UNCHANGED <<coreVars, schedVars, derive, credVars, listing, ig, tw, tk, batch, resub>>

\* _wait_for_video_processing: a pass of the loop
LiPoll(answer, d) ==
  /\ li.pc = "wait"
  /\ li.elapsed < MaxWaitSeconds
  /\ li' = wait_next(li, answer, d)
  /\ UNCHANGED <<coreVars, schedVars, derive, credVars, listing, ig, tw, tk, batch, resub>>

\* _wait_for_video_processing, line 173: the loop test fails
LiTimeout ==
  /\ li.pc = "wait"
  /\ li.elapsed >= MaxWaitSeconds
  /\ li' = [li EXCEPT !.pc = "raised", !.error = "Video processing timeout"]
  /\ UNCHANGED <<coreVars, schedVars, derive, credVars, listing, ig, tw, tk, batch, resub>>

\* post_video, lines 74-86: _create_post and the result
LiCreate(ok) ==
  /\ li.pc = "create"
  /\ li' = li_call(li, "ugcPost", ok, "returned")
  /\ UNCHANGED <<coreVars, schedVars, derive, credVars, listing, ig, tw, tk, batch, resub>>

NextLi ==
  \/ \E ok \in BOOLEAN : LiRegister(ok)
  \/ \E ok \in BOOLEAN : LiDownload(ok)
  \/ \E ok \in BOOLEAN : LiUpload(ok)
  \/ \E answer \in AssetAnswers, d \in PollDurations : LiPoll(answer, d)
  \/ LiTimeout
  \/ \E ok \in BOOLEAN : LiCreate(ok)

SpecLi == Init /\ [][NextLi]_vars

\* the order of the requests and the two raising outcomes of the wait
LiGated ==
  /\ IsPrefix(li.calls, <<"registerUpload", "download", "PUT", "ugcPost">>)
  /\ (li.pc = "create" \/ "ugcPost" \in Range(li.calls)) =>
       li.last \in {"AVAILABLE", "ALLOWED"}
  /\ li.last \in {"FAILED", "PROCESSING_FAILED"} =>
       /\ li.pc = "raised"
       /\ li.error = "Video processing failed with status"
       /\ "ugcPost" \notin Range(li.calls)
  /\ li.error = "Video processing timeout" =>
       /\ li.pc = "raised"
       /\ "ugcPost" \notin Range(li.calls)

\* C34: the adapter creates the ugcPost only after registerUpload, the PUT
\* of the video bytes and a status poll that returned AVAILABLE or ALLOWED,
\* in that order; a poll returning FAILED or PROCESSING_FAILED raises and no
\* post is created; if no poll returns AVAILABLE/ALLOWED within 120 s the
\* adapter raises a timeout error and no post is created.
C34_PublishGating ==
  /\ LiGated
  /\ "ugcPost" \in Range(li.calls) => li.elapsed <= MaxWaitSeconds

\* C34, amended: as above, with the 120 s counted to the moment a poll is
\* sent: the ugcPost is created only after a poll sent less than 120 s into
\* the wait returned AVAILABLE or ALLOWED, and the wait raises the timeout
\* error, with no post, once 120 s or more have passed when a pass of the
\* loop would start.
C34_PublishGatingAmended ==
  /\ LiGated
  /\ "ugcPost" \in Range(li.calls) => li.issued < MaxWaitSeconds
  /\ (li.pc = "wait" /\ li.last # "") => li.last = "PROCESSING"
  /\ li.error = "Video processing timeout" =>
       /\ li.elapsed >= MaxWaitSeconds
       /\ li.last = "PROCESSING"

\* a poll sent 115 s into the wait answered ALLOWED 30 s later and the
\* post was created
C34_Witness ==
  /\ li.calls = <<"registerUpload", "download", "PUT", "ugcPost">>
  /\ li.pc = "returned"
  /\ li.last = "ALLOWED"
  /\ li.issued = 115
  /\ li.elapsed = 145

\* ---------------------------------------------------------------------
\* The scheduler next to the user's edits of a scheduled row
\* (update_scheduled_post, cancel_scheduled_post)
\* ---------------------------------------------------------------------

\* the updates dict of update_scheduled_post: a later time, a new caption
PostUpdates ==
  { [scheduled_time |-> MaxClock + 1], [caption |-> "edited"] }

\* update_scheduled_post, lines 149-181: SET of the allowed keys of updates
\* and of updated_at, with no condition on the row
update_scheduled_post(table, scheduled_post_id, updates, t) ==
  [table EXCEPT
     ![scheduled_post_id] =
        [ f \in DOMAIN @ |->
            IF f \in DOMAIN updates
                 /\ f \in {"scheduled_time", "caption", "destinations", "timezone"}
            THEN updates[f]
            ELSE IF f = "updated_at" THEN t
            ELSE @[f] ]]

UpdateScheduledPost(p, updates) ==
  /\ p \in DOMAIN scheduled_posts
  /\ scheduled_posts' = update_scheduled_post(scheduled_posts, p, updates, clock)
  /\ UNCHANGED <<requests, queue, worker, clock, redelivered, resubmits,
                 response, intake, sched, promoted>>
  /\ UNCHANGED extVars

\* one scheduler execution runs next to the user's calls
OneExec == {"e1"}

NextSchedUpdate ==
  \/ \E p \in PostIds, D \in SchedDestLists, t \in 1..MaxClock :
       CreateScheduledPost(p, D, t)
  \/ AdvanceClock
  \/ \E e \in OneExec : SchedQuery(e)
  \/ \E e \in OneExec : SchedClaim(e)
  \/ \E e \in OneExec, r \in SchedIds : SchedCreate(e, r)
  \/ \E e \in OneExec : SchedPosted(e)
  \/ \E p \in PostIds, updates \in PostUpdates : UpdateScheduledPost(p, updates)

SpecSchedUpdate == Init /\ [][NextSchedUpdate]_vars

\* C35: the scheduler creates an upload request for a scheduled row only
\* if, at the moment it claims the row, the row's status is 'scheduled' and
\* its scheduled_time is <= the current time, also when the user updates
\* the row between the scheduler's query and its claim; the upload request
\* carries the row's caption and destinations as stored at the claim.
C35_NoEarlyOrStalePromotion ==
  [][ \A e \in Execs :
        /\ (sched[e].pc = "loop" /\ sched'[e].pc = "create") =>
             LET entry == sched[e].ready_posts[sched[e].i]
                 row == scheduled_posts[entry.scheduled_post_id]
             IN /\ row.status = "scheduled"
                /\ row.scheduled_time <= clock
                /\ entry.post.caption = row.caption
                /\ entry.post.destinations = row.destinations
        /\ (sched[e].pc = "create" /\ sched'[e].pc = "posted") =>
             LET entry == sched[e].ready_posts[sched[e].i]
                 request == requests'[sched'[e].request_id]
             IN /\ request.caption = entry.post.caption
                /\ DOMAIN request.destinations = Range(entry.post.destinations)
    ]_vars

\* ---------------------------------------------------------------------
\* posting_worker.py: the handler on jobs for any destination string
\* ---------------------------------------------------------------------

\* destinations of the jobs: one per platform, and the two the handler
\* cannot route
DispatchDests ==
  {"facebook:P1", "instagram:I1", "twitter:T9", "youtube:Y1", "linkedin:L1",
   "tiktok:K1", UnknownTagDest, NoColonDest}

\* a request with up to two children has been created and its jobs sent
InitDispatch ==
  /\ \E D \in SeqsUpTo(DispatchDests, 2) :
       /\ requests = put_item(<< >>, "r1",
                       request_item(UserId, VideoUrl, Caption, D, 0))
       /\ queue = BagOfSeq(job_messages("r1", UserId, VideoUrl, Caption, D))
  /\ worker = [w \in Workers |-> IdleWorker]
  /\ clock = 1
  /\ redelivered = 0
  /\ resubmits = 0
  /\ response = Response("", TRUE, "")
  /\ intake = IdleIntake
  /\ scheduled_posts = << >>
  /\ sched = [e \in Execs |-> IdleExec]
  /\ promoted = [p \in PostIds |-> [claims |-> 0, creates |-> 0]]
  /\ derive = IdleDerive
  /\ CredIdle
  /\ AdaptersIdle

NextDispatch ==
  \/ \E records \in Batches : HandlerInvoke(records)
  \/ \E out \in AdapterOutcomes : HandlerRecord(out, TRUE, TRUE)
  \/ HandlerReturn

SpecDispatch == InitDispatch /\ [][NextDispatch]_vars

\* C36: for every job message the worker invokes at most one platform
\* adapter, the one named by the part of the destination before the first
\* ':'; a destination whose tag is not one of facebook, instagram, twitter,
\* youtube, linkedin, tiktok, or which has no ':', invokes no adapter and
\* the child ends 'failed' with a non-empty error.
C36_ClosedDispatch ==
  \A k \in 1..Len(batch.done) :
    LET destination == batch.done[k].body.destination
        invoked == batch.done[k].invoked
        child == requests["r1"].destinations[destination]
    IN /\ Len(invoked) <= 1
       /\ <<destination, invoked>> \in
            { <<"facebook:P1", <<"facebook">> >>,
              <<"instagram:I1", <<"instagram">> >>,
              <<"twitter:T9", <<"twitter">> >>,
              <<"youtube:Y1", <<"youtube">> >>,
              <<"linkedin:L1", <<"linkedin">> >>,
              <<"tiktok:K1", <<"tiktok">> >>,
              <<"myspace:M1", << >> >>,
              <<"facebook", << >> >> }
       /\ invoked = << >> =>
            /\ batch.done[k].status = "failed"
            /\ child.status = "failed"
            /\ Truthy(child.error)
            /\ child.result = Absent

\* a batch with a job for an unknown tag and a job with no ':' has been
\* handled: no routine was called and both children are 'failed'
C36_Witness ==
  /\ batch.pc = "returned"
  /\ Len(batch.done) = 2
  /\ batch.done[1].body.destination = "myspace:M1"
  /\ batch.done[2].body.destination = "facebook"
  /\ batch.done[1].invoked = << >> /\ batch.done[2].invoked = << >>
  /\ requests["r1"].destinations["myspace:M1"].status = "failed"
  /\ requests["r1"].destinations["facebook"].error = "not enough values to unpack"

\* ---------------------------------------------------------------------
\* upload_requests.py: resubmit_failed_destination call by call (the read
\* with its checks, the child write, the send, the parent update), for
\* callers running at the same time
\* ---------------------------------------------------------------------

\* a request whose first child the worker has taken to some status
InitResub ==
  /\ \E D \in DestLists, stage \in ChildStages :
       requests = [ r \in {"r1"} |-> stored_request(UserId, D, stage, 0) ]
  /\ queue = EmptyBag
  /\ worker = [w \in Workers |-> IdleWorker]
  /\ clock = 1
  /\ redelivered = 0
  /\ resubmits = 0
  /\ response = Response("", TRUE, "")
  /\ intake = IdleIntake
  /\ scheduled_posts = << >>
  /\ sched = [e \in Execs |-> IdleExec]
  /\ promoted = [p \in PostIds |-> [claims |-> 0, creates |-> 0]]
  /\ derive = IdleDerive
  /\ CredIdle
  /\ AdaptersIdle

\* resubmit_failed_destination, lines 281-298: get_upload_request and the
\* three checks on what it returned
resub_read(store, request_id, destination) ==
  LET err == resubmit_error(store, request_id, destination)
  IN [pc |-> IF err = "" THEN "write" ELSE "raised", request_id |-> request_id,
      destination |-> destination, error |-> err]

ResubRead(c, request_id, destination) ==
  /\ resub[c].pc = "idle"
  /\ resub' = [resub EXCEPT ![c] = resub_read(requests, request_id, destination)]
  /\ UNCHANGED <<coreVars, schedVars, derive, credVars, listing, ig, tw, tk,
                 batch, li>>

\* resubmit_failed_destination, lines 300-319: the update_item of the child
ResubWrite(c) ==
  /\ resub[c].pc = "write"
  /\ requests' = resubmit_update(requests, resub[c].request_id,
                                 resub[c].destination, clock)
  /\ resub' = [resub EXCEPT ![c].pc = "send"]
  /\ clock' = Tick
  /\ UNCHANGED <<queue, worker, redelivered, resubmits, response, intake,
                 schedVars, derive, credVars, listing, ig, tw, tk, batch, li>>

\* resubmit_failed_destination, lines 321-333: sqs.send_message
ResubSend(c) ==
  /\ resub[c].pc = "send"
  /\ queue' = queue (+) SetToBag({
       JobMessage(resub[c].request_id, requests[resub[c].request_id].user_id,
                  resub[c].destination,
                  requests[resub[c].request_id].video_url,
                  requests[resub[c].request_id].caption) })
  /\ resub' = [resub EXCEPT ![c].pc = "overall"]
  /\ UNCHANGED <<requests, worker, clock, redelivered, resubmits, response,
                 intake, schedVars, derive, credVars, listing, ig, tw, tk,
                 batch, li>>

\* resubmit_failed_destination, lines 335-342: update_overall_status and
\* the return
ResubOverall(c) ==
  /\ resub[c].pc = "overall"
  /\ requests' = update_overall_status(requests, resub[c].request_id, clock)
  /\ resub' = [resub EXCEPT ![c].pc = "returned"]
  /\ UNCHANGED <<queue, worker, clock, redelivered, resubmits, response,
                 intake, schedVars, derive, credVars, listing, ig, tw, tk,
                 batch, li>>

NextResub ==
  \/ \E c \in Callers, r \in SubmitIds \cup {UnknownId},
        d \in Dests \cup {OtherDest} : ResubRead(c, r, d)
  \/ \E c \in Callers : ResubWrite(c)
  \/ \E c \in Callers : ResubSend(c)
  \/ \E c \in Callers : ResubOverall(c)

SpecResub == InitResub /\ [][NextResub]_vars

\* the jobs in the queue for a child
JobsFor(request_id, destination) ==
  CopiesIn(JobMessage(request_id, UserId, destination, VideoUrl, Caption), queue)

\* C37: for two resubmit calls on the same failed child running
\* concurrently, in every interleaving of their status read, child write and
\* enqueue, exactly one job is enqueued for the destination in total and the
\* other call fails with 'Only failed tasks can be resubmitted'.
C37_ConcurrentResubmit ==
  \A c1, c2 \in Callers :
    ( /\ c1 # c2
      /\ resub[c1].request_id = resub[c2].request_id
      /\ resub[c1].destination = resub[c2].destination
      /\ resub[c1].pc = "returned"
      /\ resub[c2].pc \in {"returned", "raised"} ) =>
        /\ JobsFor(resub[c1].request_id, resub[c1].destination) = 1
        /\ resub[c2].pc = "raised"
        /\ resub[c2].error = "Only failed tasks can be resubmitted"

\* C38: in every reachable state of a request, after any sequence of
\* deliveries (duplicate deliveries of one job included) and resubmits, a
\* child with status 'completed' has a result and no error field, a child
\* with status 'failed' has a non-empty error, and a child with status
\* 'queued' has no error.
C38_ChildFieldsAgreeWithStatus ==
  \A r \in DOMAIN requests :
    \A d \in DOMAIN requests[r].destinations :
      LET child == requests[r].destinations[d]
      IN /\ child.status = "completed" =>
              Truthy(child.result) /\ child.error = Absent
         /\ child.status = "failed" => Truthy(child.error)
         /\ child.status = "queued" => child.error = Absent

\* ---------------------------------------------------------------------
\* scheduled_posts_manager.py: cancel_scheduled_post next to one scheduler
\* execution
\* ---------------------------------------------------------------------

\* cancel_scheduled_post, lines 197-213: SET of status and updated_at, with
\* no condition on the row
cancel_scheduled_post(table, scheduled_post_id, t) ==
  [table EXCEPT ![scheduled_post_id].status = "cancelled",
                ![scheduled_post_id].updated_at = t]

CancelScheduledPost(p) ==
  /\ p \in DOMAIN scheduled_posts
  /\ scheduled_posts' = cancel_scheduled_post(scheduled_posts, p, clock)
  /\ UNCHANGED <<requests, queue, worker, clock, redelivered, resubmits,
                 response, intake, sched, promoted>>
  /\ UNCHANGED extVars

NextSchedCancel ==
  \/ \E p \in PostIds, D \in SchedDestLists, t \in 1..MaxClock :
       CreateScheduledPost(p, D, t)
  \/ AdvanceClock
  \/ \E e \in OneExec : SchedQuery(e)
  \/ \E e \in OneExec : SchedClaim(e)
  \/ \E e \in OneExec, r \in SchedIds : SchedCreate(e, r)
  \/ \E e \in OneExec : SchedPosted(e)
  \/ \E p \in PostIds : CancelScheduledPost(p)

SpecSchedCancel == Init /\ [][NextSchedCancel]_vars

\* C39: once cancel_scheduled_post has set a row to 'cancelled', no upload
\* request is created for that row afterwards and its status never becomes
\* 'posted'; and a cancel issued after a scheduler execution has claimed
\* the row (status 'processing' or 'posted') does not change the row's
\* status, in every interleaving of the cancel with the scheduler's claim,
\* its create_upload_request call and mark_post_as_posted.
C39_CancelVersusPromotion ==
  [][ \A p \in DOMAIN scheduled_posts :
        /\ scheduled_posts[p].status = "cancelled" =>
             /\ scheduled_posts'[p].status # "posted"
             /\ promoted'[p].creates = promoted[p].creates
        /\ scheduled_posts[p].status \in {"processing", "posted"} =>
             scheduled_posts'[p].status # "cancelled"
    ]_vars

\* ---------------------------------------------------------------------
\* scheduler_processor.py: what a row marked 'failed' has published
\* ---------------------------------------------------------------------

\* the row execution e is dealing with
CurrentRow(e) == sched[e].ready_posts[sched[e].i].scheduled_post_id

\* C40: a scheduled row ends with status 'failed' only if no job for any of
\* its destinations has been enqueued; whenever create_upload_request
\* enqueued at least one job for the row, the row ends 'posted' with the
\* request_id of that upload request.
C40_FailedPublishedNothing ==
  [][ \A e \in Execs :
        \* the call that raises, after which the row is marked 'failed', has
        \* sent no job
        /\ (sched[e].pc = "create" /\ sched'[e].pc = "except") =>
             queue' = queue
        \* the row is marked 'failed' only when no upload request was returned
        /\ ( /\ sched[e].pc = "except"
             /\ sched'[e] = next_row(sched[e])
             /\ scheduled_posts'[CurrentRow(e)].status = "failed" )
           => sched[e].request_id = ""
        \* a returned upload request ends in a 'posted' row that carries it
        /\ ( /\ sched[e].request_id # ""
             /\ sched[e].pc \in {"posted", "except"}
             /\ sched'[e] = next_row(sched[e]) )
           => /\ scheduled_posts'[CurrentRow(e)].status = "posted"
              /\ scheduled_posts'[CurrentRow(e)].request_id = sched[e].request_id
    ]_vars

====
